---- MODULE Spec2Model ----
(***************************************************************************)
(* Subject-range indexing and random-access retrieval of brendondgr/       *)
(* mimic-project: Filter.generate_byte_index (utils/analysis/filtering.py) *)
(* and File_Filter.search_subject (utils/analysis/filters/file_filter.py). *)
(*                                                                         *)
(* A dataset is held as its uncompressed bytes, one one-character string   *)
(* per byte; offsets are 0-based positions in that byte sequence, as       *)
(* indexed_gzip reports them.  Column names are abbreviated to one byte:   *)
(* "s" is the sort column (subject_id), "v" a value column.                *)
(***************************************************************************)
EXTENDS Integers, Sequences, FiniteSets, TLC

\* ------------------------------------------------------------------ bounds
MaxRows == 3

\* ------------------------------------------------------ registered datasets
FileIds == {"A", "B"}
DataIds == {2, 10}
OtherData == <<2>>
TableIds == {2, 10}
QueryIds == {2, 10}

NL == "\n"
COMMA == ","
QUOTE == "\""
MINUS == "-"
Digits == <<"0", "1", "2", "3", "4", "5", "6", "7", "8", "9">>
Letters == <<"a", "b", "c", "d", "e", "f">>
sort_col == <<"s">>
val_col == <<"v">>

VARIABLES
    HAS_INDEXED_GZIP,   \* module flag of filtering.py
    dataset,            \* file id -> the data rows the file was written from
    quoted,             \* the files quote the sort-key field
    sort_col_idx,       \* position of the sort column in the files' header
    table,              \* the lookup CSV on disk
    idx_exists,         \* file id -> the .idx sidecar exists
    result,             \* outcome of the last operation
    queries,            \* request thread -> its search_subject call in flight
    handles,            \* the open IndexedGzipFile readers: handle -> position
    builds,             \* file id -> its generate_byte_index call in flight
    target_csv          \* a CSV of subject ids at a path other than the lookup path

vars == <<HAS_INDEXED_GZIP, dataset, quoted, sort_col_idx, table, idx_exists, result,
          queries, handles, builds, target_csv>>

\* the calls in flight, which an operation that runs alone leaves as they are
in_flight == <<queries, handles, builds>>

\* ------------------------------------------------------------ byte helpers
\* str(n) of an integer
RECURSIVE IntToBytes(_)
IntToBytes(n) ==
    IF n < 0 THEN <<MINUS>> \o IntToBytes(0 - n)
    ELSE IF n < 10 THEN <<Digits[n + 1]>>
    ELSE IntToBytes(n \div 10) \o <<Digits[(n % 10) + 1]>>

RECURSIVE Concat(_)
Concat(ss) == IF ss = <<>> THEN <<>> ELSE Head(ss) \o Concat(Tail(ss))

\* the key field of a data row as the file holds it
KeyField(sid) ==
    IF quoted THEN <<QUOTE>> \o IntToBytes(sid) \o <<QUOTE>> ELSE IntToBytes(sid)

\* the fields of a data row, in header order, as a CSV reader returns them
RecordOf(row) ==
    IF sort_col_idx = 0 THEN <<IntToBytes(row.sid), row.val>>
    ELSE <<row.val, IntToBytes(row.sid)>>

\* a row without a key is written as a line of one field
LineOf(row) ==
    IF "sid" \notin DOMAIN row THEN row.val \o <<NL>>
    ELSE IF sort_col_idx = 0 THEN KeyField(row.sid) \o <<COMMA>> \o row.val \o <<NL>>
    ELSE row.val \o <<COMMA>> \o KeyField(row.sid) \o <<NL>>

HeaderLine ==
    IF sort_col_idx = 0 THEN sort_col \o <<COMMA>> \o val_col \o <<NL>>
    ELSE val_col \o <<COMMA>> \o sort_col \o <<NL>>

\* the uncompressed content of dataset d
Uncompressed(d) ==
    HeaderLine \o Concat([i \in 1..Len(dataset[d]) |-> LineOf(dataset[d][i])])

\* ---------------------------------------------- Python bytes/str primitives
\* b.split(b',', maxsplit)
\* index of the first byte c of b at or after index i, 0 if there is none
RECURSIVE find(_, _, _)
find(b, c, i) == IF i > Len(b) THEN 0 ELSE IF b[i] = c THEN i ELSE find(b, c, i + 1)

RECURSIVE split(_, _)
split(b, maxsplit) ==
    LET i == find(b, COMMA, 1) IN
    IF maxsplit = 0 \/ i = 0 THEN <<b>>
    ELSE <<SubSeq(b, 1, i - 1)>> \o split(SubSeq(b, i + 1, Len(b)), maxsplit - 1)

RECURSIVE lstrip(_, _)
lstrip(b, chars) == IF b # <<>> /\ Head(b) \in chars THEN lstrip(Tail(b), chars) ELSE b

RECURSIVE rstrip(_, _)
rstrip(b, chars) ==
    IF b # <<>> /\ b[Len(b)] \in chars THEN rstrip(SubSeq(b, 1, Len(b) - 1), chars) ELSE b

\* s.strip(chars): drops every leading and trailing byte that is in chars
strip(b, chars) == rstrip(lstrip(b, chars), chars)

Whitespace == {NL, " "}

DigitValue(c) == find(Digits, c, 1) - 1

RECURSIVE Decimal(_)
Decimal(b) ==
    IF b = <<>> THEN 0 ELSE 10 * Decimal(SubSeq(b, 1, Len(b) - 1)) + DigitValue(b[Len(b)])

\* int(b): surrounding whitespace is ignored, the rest must be an optional
\* sign and decimal digits; ok = FALSE stands for ValueError
int(b) ==
    LET t == strip(b, Whitespace)
        neg == t # <<>> /\ t[1] = MINUS
        u == IF neg THEN Tail(t) ELSE t
        isnum == u # <<>> /\ \A i \in 1..Len(u) : find(Digits, u[i], 1) # 0
    IN  [ok |-> isnum,
         val |-> IF ~isnum THEN 0 ELSE IF neg THEN 0 - Decimal(u) ELSE Decimal(u)]

\* ------------------------------------------------- the random-access reader
\* f.readline() with the reader at offset pos (empty at end of file)
readline(b, pos) ==
    LET nl == find(b, NL, pos + 1) IN
    IF pos >= Len(b) THEN <<>> ELSE SubSeq(b, pos + 1, IF nl = 0 THEN Len(b) ELSE nl)

\* faulty variant of seek_read: the read starts one byte late
seek_read_late(b, start, n) ==
    IF n <= 0 \/ start + 1 >= Len(b) THEN <<>>
    ELSE SubSeq(b, start + 2, IF start + 1 + n > Len(b) THEN Len(b) ELSE start + 1 + n)

\* f.seek(start); f.read(n)
seek_read(b, start, n) ==
    IF n <= 0 \/ start >= Len(b) THEN <<>>
    ELSE SubSeq(b, start + 1, IF start + n > Len(b) THEN Len(b) ELSE start + n)

\* pd.read_csv(path, nrows=0).columns.tolist()
header(d) == split(strip(readline(Uncompressed(d), 0), Whitespace), Len(HeaderLine))

\* list.index(x): 0-based position of the first x, or -1 for ValueError
index_of(cols, x) == find(cols, x, 1) - 1

\* ------------------------------------------------ the lookup CSV (the table)
start_col(file_id) == file_id \o "_byteidx_start"
end_col(file_id) == file_id \o "_byteidx_end"

Range(q) == {q[i] : i \in 1..Len(q)}

RECURSIVE lines_of(_)
lines_of(b) ==
    IF b = <<>> THEN <<>>
    ELSE LET l == readline(b, 0) IN <<l>> \o lines_of(SubSeq(b, Len(l) + 1, Len(b)))

RECURSIVE join(_)
\* ",".join(fields)
join(fields) ==
    IF fields = <<>> THEN <<>>
    ELSE IF Len(fields) = 1 THEN fields[1]
    ELSE fields[1] \o <<COMMA>> \o join(Tail(fields))

\* DataFrame.to_csv(path, index=False): the header line, then one line of
\* decimal integers per row; a column name is held as one unit
to_csv(df) ==
    join([j \in 1..Len(df.columns) |-> <<df.columns[j]>>]) \o <<NL>>
    \o Concat([i \in 1..Len(df.rows) |->
                 join([j \in 1..Len(df.columns) |-> IntToBytes(df.rows[i][df.columns[j]])])
                 \o <<NL>>])

\* pd.read_csv(path) of the table: the first line names the columns, every
\* other line is a row of integers
read_table(data) ==
    LET ls == lines_of(data)
        names == split(strip(ls[1], {NL}), Len(ls[1]))
        columns == [j \in 1..Len(names) |-> names[j][1]]
        row(l) == LET cells == split(strip(l, {NL}), Len(l)) IN
                  [c \in {columns[j] : j \in 1..Len(columns)} |->
                      int(cells[index_of(columns, c) + 1]).val]
    IN [columns |-> columns, rows |-> [i \in 1..(Len(ls) - 1) |-> row(ls[i + 1])]]

\* the subject_id column of a DataFrame
subject_ids(df) == [i \in 1..Len(df.rows) |-> df.rows[i]["subject_id"]]

\* the table file is absent
NoTable == [exists |-> FALSE, data |-> <<>>]

\* the base CSV of subject ids, before any dataset is indexed
BaseTable(ids) ==
    [exists |-> TRUE,
     data |-> to_csv([columns |-> <<"subject_id">>,
                      rows |-> [i \in 1..Len(ids) |-> [c \in {"subject_id"} |-> ids[i]]]])]

\* the members of a set of integers in ascending order
RECURSIVE Ascending(_)
Ascending(S) ==
    IF S = {} THEN <<>>
    ELSE LET m == CHOOSE x \in S : \A y \in S : x <= y IN <<m>> \o Ascending(S \ {m})

\* dict[key] = value
Put(dict, key, value) ==
    [k \in DOMAIN dict \cup {key} |-> IF k = key THEN value ELSE dict[k]]

\* ------------------------------------ generate_byte_index: the scan of a file
NoOffsets == [k \in {} |-> <<0, 0>>]

\* faulty variant of ProcessLine: a run is closed after the first line of the next run
ProcessLine_late_end(line, subject_col_idx, st) ==
    LET line_len == Len(line)
        parts == split(line, subject_col_idx + 1)
    IN
    IF Len(parts) <= subject_col_idx
    THEN [st EXCEPT !.current_offset = @ + line_len]
    ELSE
        LET sid_bytes == parts[subject_col_idx + 1]
            first == int(sid_bytes)
            second == int(strip(sid_bytes, {QUOTE}))
        IN
        IF ~first.ok /\ ~second.ok
        THEN [st EXCEPT !.error = "ValueError"]
        ELSE
            LET sid == IF first.ok THEN first.val ELSE second.val IN
            IF <<sid>> # st.current_subject
            THEN [st EXCEPT
                    !.offsets = IF st.current_subject # <<>>
                                THEN Put(@, st.current_subject[1],
                                         <<st.subject_start_offset,
                                           st.current_offset + line_len>>)
                                ELSE @,
                    !.current_subject = <<sid>>,
                    !.subject_start_offset = st.current_offset,
                    !.current_offset = @ + line_len]
            ELSE [st EXCEPT !.current_offset = @ + line_len]

\* the period of the progress line of the scan
ProgressEvery == 1000

\* what the scan prints when the sort key changes: "Found n subjects..."
\* when the number n of ranges recorded so far, the run just closed
\* included, is a multiple of 1000; nothing else, whatever the new key is
progress(st) ==
    LET n == Cardinality(DOMAIN st.offsets
                         \cup (IF st.current_subject # <<>>
                               THEN {st.current_subject[1]} ELSE {}))
    IN IF n % ProgressEvery = 0
       THEN [st EXCEPT !.printed = Append(@, <<"Found", n>>)]
       ELSE st

\* faulty variant of ProcessLine: the bytes of a line that has too few fields
\* are not counted
ProcessLine_short_uncounted(line, subject_col_idx, st) ==
    LET line_len == Len(line)
        parts == split(line, subject_col_idx + 1)
    IN
    IF Len(parts) <= subject_col_idx
    THEN st
    ELSE
        LET sid_bytes == parts[subject_col_idx + 1]
            first == int(sid_bytes)
            second == int(strip(sid_bytes, {QUOTE}))
        IN
        IF ~first.ok /\ ~second.ok
        THEN [st EXCEPT !.error = "ValueError"]
        ELSE
            LET sid == IF first.ok THEN first.val ELSE second.val IN
            IF <<sid>> # st.current_subject
            THEN [progress(st) EXCEPT
                    !.offsets = IF st.current_subject # <<>>
                                THEN Put(@, st.current_subject[1],
                                         <<st.subject_start_offset, st.current_offset>>)
                                ELSE @,
                    !.current_subject = <<sid>>,
                    !.subject_start_offset = st.current_offset,
                    !.current_offset = @ + line_len]
            ELSE [st EXCEPT !.current_offset = @ + line_len]

\* one iteration of "for line in f"
ProcessLine(line, subject_col_idx, st) ==
    LET line_len == Len(line)
        parts == split(line, subject_col_idx + 1)
    IN
    IF Len(parts) <= subject_col_idx
    THEN [st EXCEPT !.current_offset = @ + line_len]
    ELSE
        LET sid_bytes == parts[subject_col_idx + 1]
            first == int(sid_bytes)
            second == int(strip(sid_bytes, {QUOTE}))
        IN
        IF ~first.ok /\ ~second.ok
        THEN [st EXCEPT !.error = "ValueError"]
        ELSE
            LET sid == IF first.ok THEN first.val ELSE second.val IN
            IF <<sid>> # st.current_subject
            THEN [progress(st) EXCEPT
                    !.offsets = IF st.current_subject # <<>>
                                THEN Put(@, st.current_subject[1],
                                         <<st.subject_start_offset, st.current_offset>>)
                                ELSE @,
                    !.current_subject = <<sid>>,
                    !.subject_start_offset = st.current_offset,
                    !.current_offset = @ + line_len]
            ELSE [st EXCEPT !.current_offset = @ + line_len]

\* "for line in f", the reader standing at st.pos
RECURSIVE scan(_, _, _)
scan(b, subject_col_idx, st) ==
    IF st.error # "" \/ st.pos >= Len(b) THEN st
    ELSE LET line == readline(b, st.pos) IN
         scan(b, subject_col_idx,
              [ProcessLine(line, subject_col_idx, st) EXCEPT !.pos = st.pos + Len(line)])

\* faulty variant of flush_last: the last run is recorded even when no data
\* line was read (current_subject is None)
flush_last_unguarded(st) ==
    IF st.error = ""
    THEN [st EXCEPT !.offsets = Put(@, IF st.current_subject # <<>>
                                       THEN st.current_subject[1] ELSE 0,
                                    <<st.subject_start_offset, st.current_offset>>)]
    ELSE st

\* faulty variant of flush_last: a subject that already has a range keeps it
flush_last_keeps_first(st) ==
    IF st.error = "" /\ st.current_subject # <<>>
       /\ st.current_subject[1] \notin DOMAIN st.offsets
    THEN [st EXCEPT !.offsets = Put(@, st.current_subject[1],
                                    <<st.subject_start_offset, st.current_offset>>)]
    ELSE st

\* faulty variant of flush_last: the run that is open at end of file is not recorded
flush_last_dropped(st) == st

\* "Last subject"
flush_last(st) ==
    IF st.error = "" /\ st.current_subject # <<>>
    THEN [st EXCEPT !.offsets = Put(@, st.current_subject[1],
                                    <<st.subject_start_offset, st.current_offset>>)]
    ELSE st

\* header line, column lookup, scan and final flush of dataset file_id
scan_file(file_id) ==
    LET b == Uncompressed(file_id)
        header_line == readline(b, 0)
        O0 == Len(header_line)
        cols == split(strip(header_line, Whitespace), Len(header_line))
        subject_col_idx == index_of(cols, sort_col)
        st0 == [pos |-> O0, current_offset |-> O0, current_subject |-> <<>>,
                subject_start_offset |-> O0, offsets |-> NoOffsets, error |-> "",
                printed |-> <<>>]
    IN
    IF subject_col_idx < 0
    THEN [st0 EXCEPT !.error = "no_sort_column"]
    ELSE flush_last(scan(b, subject_col_idx, st0))

\* faulty variant of update_columns: a subject that was not found gets 0, not -1
update_columns_zero(t, file_id, offsets) ==
    LET sc == start_col(file_id)
        ec == end_col(file_id)
        c1 == IF sc \in Range(t.columns) THEN t.columns ELSE Append(t.columns, sc)
        c2 == IF ec \in Range(c1) THEN c1 ELSE Append(c1, ec)
        newrow(r) ==
            LET sid == r["subject_id"]
                found == sid \in DOMAIN offsets
            IN [c \in Range(c2) |->
                   IF c = sc THEN (IF found THEN offsets[sid][1] ELSE 0)
                   ELSE IF c = ec THEN (IF found THEN offsets[sid][2] ELSE 0)
                   ELSE r[c]]
    IN [columns |-> c2, rows |-> [i \in 1..Len(t.rows) |-> newrow(t.rows[i])]]

\* faulty variant of update_columns: set-union, a row is appended for every subject
\* found in the scan that has none
update_columns_union(t, file_id, offsets) ==
    LET sc == start_col(file_id)
        ec == end_col(file_id)
        c1 == IF sc \in Range(t.columns) THEN t.columns ELSE Append(t.columns, sc)
        c2 == IF ec \in Range(c1) THEN c1 ELSE Append(c1, ec)
        newrow(r) ==
            LET sid == r["subject_id"]
                found == sid \in DOMAIN offsets
            IN [c \in Range(c2) |->
                   IF c = sc THEN (IF found THEN offsets[sid][1] ELSE -1)
                   ELSE IF c = ec THEN (IF found THEN offsets[sid][2] ELSE -1)
                   ELSE r[c]]
        fresh == Ascending(DOMAIN offsets \ Range(subject_ids(t)))
        added(sid) ==
            [c \in Range(c2) |->
                IF c = "subject_id" THEN sid
                ELSE IF c = sc THEN offsets[sid][1]
                ELSE IF c = ec THEN offsets[sid][2]
                ELSE -1]
    IN [columns |-> c2,
        rows |-> [i \in 1..Len(t.rows) |-> newrow(t.rows[i])]
                 \o [i \in 1..Len(fresh) |-> added(fresh[i])]]

\* faulty variant of update_columns: the rows are written in ascending subject_id order
update_columns_sorted(t, file_id, offsets) ==
    LET sc == start_col(file_id)
        ec == end_col(file_id)
        c1 == IF sc \in Range(t.columns) THEN t.columns ELSE Append(t.columns, sc)
        c2 == IF ec \in Range(c1) THEN c1 ELSE Append(c1, ec)
        newrow(r) ==
            LET sid == r["subject_id"]
                found == sid \in DOMAIN offsets
            IN [c \in Range(c2) |->
                   IF c = sc THEN (IF found THEN offsets[sid][1] ELSE -1)
                   ELSE IF c = ec THEN (IF found THEN offsets[sid][2] ELSE -1)
                   ELSE r[c]]
        order == Ascending(Range(subject_ids(t)))
        rowof(sid) == t.rows[CHOOSE k \in 1..Len(t.rows) : t.rows[k]["subject_id"] = sid]
    IN [columns |-> c2, rows |-> [i \in 1..Len(order) |-> newrow(rowof(order[i]))]]

\* faulty variant of update_columns: the two columns are appended even when the
\* table has them already
update_columns_append(t, file_id, offsets) ==
    LET sc == start_col(file_id)
        ec == end_col(file_id)
        c2 == t.columns \o <<sc, ec>>
        newrow(r) ==
            LET sid == r["subject_id"]
                found == sid \in DOMAIN offsets
            IN [c \in Range(c2) |->
                   IF c = sc THEN (IF found THEN offsets[sid][1] ELSE -1)
                   ELSE IF c = ec THEN (IF found THEN offsets[sid][2] ELSE -1)
                   ELSE r[c]]
    IN [columns |-> c2, rows |-> [i \in 1..Len(t.rows) |-> newrow(t.rows[i])]]

\* faulty variant of update_columns: the columns of the other datasets are
\* reset to -1
update_columns_clears_others(t, file_id, offsets) ==
    LET sc == start_col(file_id)
        ec == end_col(file_id)
        c1 == IF sc \in Range(t.columns) THEN t.columns ELSE Append(t.columns, sc)
        c2 == IF ec \in Range(c1) THEN c1 ELSE Append(c1, ec)
        newrow(r) ==
            LET sid == r["subject_id"]
                found == sid \in DOMAIN offsets
            IN [c \in Range(c2) |->
                   IF c = sc THEN (IF found THEN offsets[sid][1] ELSE -1)
                   ELSE IF c = ec THEN (IF found THEN offsets[sid][2] ELSE -1)
                   ELSE IF c = "subject_id" THEN r[c]
                   ELSE -1]
    IN [columns |-> c2, rows |-> [i \in 1..Len(t.rows) |-> newrow(t.rows[i])]]

\* "Update DataFrame": the two columns of file_id, one value per existing row
update_columns(t, file_id, offsets) ==
    LET sc == start_col(file_id)
        ec == end_col(file_id)
        c1 == IF sc \in Range(t.columns) THEN t.columns ELSE Append(t.columns, sc)
        c2 == IF ec \in Range(c1) THEN c1 ELSE Append(c1, ec)
        newrow(r) ==
            LET sid == r["subject_id"]
                found == sid \in DOMAIN offsets
            IN [c \in Range(c2) |->
                   IF c = sc THEN (IF found THEN offsets[sid][1] ELSE -1)
                   ELSE IF c = ec THEN (IF found THEN offsets[sid][2] ELSE -1)
                   ELSE r[c]]
    IN [columns |-> c2, rows |-> [i \in 1..Len(t.rows) |-> newrow(t.rows[i])]]

\* faulty variant of build: a dataset whose columns hold an entry other than -1 is
\* skipped
build_skip_populated(file_id) ==
    LET sf == scan_file(file_id)
        subjects_df == read_table(table.data)
        none == [status |-> "", offsets |-> NoOffsets, table |-> table, idx |-> idx_exists[file_id]]
    IN
    IF ~HAS_INDEXED_GZIP THEN [none EXCEPT !.status = "no_indexed_gzip"]
    ELSE IF ~table.exists THEN [none EXCEPT !.status = "no_target_csv"]
    ELSE IF "subject_id" \notin Range(subjects_df.columns)
         THEN [none EXCEPT !.status = "no_subject_id_column"]
    ELSE IF /\ start_col(file_id) \in Range(subjects_df.columns)
            /\ \E i \in 1..Len(subjects_df.rows) : subjects_df.rows[i][start_col(file_id)] # -1
         THEN [none EXCEPT !.status = "skipped"]
    ELSE IF sf.error # "" THEN [none EXCEPT !.status = sf.error, !.idx = TRUE]
    ELSE [status |-> "written", offsets |-> sf.offsets,
          table |-> [exists |-> TRUE,
                     data |-> to_csv(update_columns(subjects_df, file_id, sf.offsets))],
          idx |-> TRUE]

\* faulty variant of build: when the scan fails the table is written with
\* the ranges recorded up to the failure
build_writes_partial(file_id) ==
    LET sf == scan_file(file_id)
        subjects_df == read_table(table.data)
        none == [status |-> "", offsets |-> NoOffsets, table |-> table, idx |-> idx_exists[file_id]]
    IN
    IF ~HAS_INDEXED_GZIP THEN [none EXCEPT !.status = "no_indexed_gzip"]
    ELSE IF ~table.exists THEN [none EXCEPT !.status = "no_target_csv"]
    ELSE IF "subject_id" \notin Range(subjects_df.columns)
         THEN [none EXCEPT !.status = "no_subject_id_column"]
    ELSE [status |-> IF sf.error # "" THEN sf.error ELSE "written", offsets |-> sf.offsets,
          table |-> [exists |-> TRUE,
                     data |-> to_csv(update_columns(subjects_df, file_id, sf.offsets))],
          idx |-> TRUE]

\* what one call of generate_byte_index does: how it ended, the offsets it
\* found, the table file and the sidecar it leaves
build(file_id) ==
    LET sf == scan_file(file_id)
        subjects_df == read_table(table.data)
        none == [status |-> "", offsets |-> NoOffsets, table |-> table, idx |-> idx_exists[file_id]]
    IN
    IF ~HAS_INDEXED_GZIP THEN [none EXCEPT !.status = "no_indexed_gzip"]
    ELSE IF ~table.exists THEN [none EXCEPT !.status = "no_target_csv"]
    ELSE IF "subject_id" \notin Range(subjects_df.columns)
         THEN [none EXCEPT !.status = "no_subject_id_column"]
    ELSE IF sf.error # "" THEN [none EXCEPT !.status = sf.error, !.idx = TRUE]
    ELSE [status |-> "written", offsets |-> sf.offsets,
          table |-> [exists |-> TRUE,
                     data |-> to_csv(update_columns(subjects_df, file_id, sf.offsets))],
          idx |-> TRUE]

\* --------------------------------------------------- File_Filter.search_subject
\* Filter._load_lookup_table: None (<<>>) unless the file exists and has a
\* subject_id column, else the table indexed by subject_id
load_lookup_table(t) ==
    LET df == read_table(t.data) IN
    IF t.exists /\ "subject_id" \in Range(df.columns) THEN <<df>> ELSE <<>>

\* a quoted CSV field loses its quotes
unquote(f) ==
    IF Len(f) >= 2 /\ f[1] = QUOTE /\ f[Len(f)] = QUOTE THEN SubSeq(f, 2, Len(f) - 1) ELSE f

\* pd.read_csv(BytesIO(data), names=header, header=None): blank lines are
\* skipped; ok = FALSE stands for EmptyDataError
read_csv(data) ==
    LET nonblank(l) == strip(l, Whitespace) # <<>>
        ls == SelectSeq(lines_of(data), nonblank)
        fields(l) == LET fs == split(strip(l, {NL}), Len(l)) IN
                     [j \in 1..Len(fs) |-> unquote(fs[j])]
    IN [ok |-> data # <<>>, rows |-> [i \in 1..Len(ls) |-> fields(ls[i])]]

DataFrame(columns, rows) ==
    [status |-> "ok", columns |-> columns, rows |-> rows, opened |-> FALSE]

Raise(error, opened) ==
    [status |-> error, columns |-> <<>>, rows |-> <<>>, opened |-> opened]

\* faulty variant of read_range: the first row is not compared with the subject
read_range_unchecked(file_id, subject_id, start_byte, end_byte) ==
    LET length_bytes == end_byte - start_byte
        data == seek_read(Uncompressed(file_id), start_byte, length_bytes)
        result_df == read_csv(data)
    IN
    IF ~result_df.ok THEN Raise("RuntimeError", TRUE)
    ELSE [DataFrame(header(file_id), result_df.rows) EXCEPT !.opened = TRUE]

\* faulty variant of read_range: only the first record of the range is returned
read_range_first_row(file_id, subject_id, start_byte, end_byte) ==
    LET length_bytes == end_byte - start_byte
        data == seek_read(Uncompressed(file_id), start_byte, length_bytes)
        result_df == read_csv(data)
        sort_idx == index_of(header(file_id), sort_col)
        actual_subject == int(result_df.rows[1][sort_idx + 1])
    IN
    IF ~result_df.ok THEN Raise("RuntimeError", TRUE)
    ELSE IF result_df.rows # <<>>
            /\ (Len(result_df.rows[1]) <= sort_idx
                \/ ~actual_subject.ok \/ actual_subject.val # subject_id)
         THEN [DataFrame(header(file_id), <<>>) EXCEPT !.opened = TRUE]
    ELSE [DataFrame(header(file_id), <<result_df.rows[1]>>) EXCEPT !.opened = TRUE]

\* faulty variant of read_range: the read fails when no sidecar was imported
read_range_needs_sidecar(file_id, subject_id, start_byte, end_byte) ==
    LET length_bytes == end_byte - start_byte
        data == seek_read(Uncompressed(file_id), start_byte, length_bytes)
        result_df == read_csv(data)
        sort_idx == index_of(header(file_id), sort_col)
        actual_subject == int(result_df.rows[1][sort_idx + 1])
    IN
    IF ~idx_exists[file_id] \/ ~result_df.ok THEN Raise("RuntimeError", TRUE)
    ELSE IF result_df.rows # <<>>
            /\ (Len(result_df.rows[1]) <= sort_idx
                \/ ~actual_subject.ok \/ actual_subject.val # subject_id)
         THEN [DataFrame(header(file_id), <<>>) EXCEPT !.opened = TRUE]
    ELSE [DataFrame(header(file_id), result_df.rows) EXCEPT !.opened = TRUE]

\* the part of search_subject that reads the dataset: seek, read, parse and
\* the check of the first row
read_range(file_id, subject_id, start_byte, end_byte) ==
    LET length_bytes == end_byte - start_byte
        data == seek_read(Uncompressed(file_id), start_byte, length_bytes)
        result_df == read_csv(data)
        sort_idx == index_of(header(file_id), sort_col)
        actual_subject == int(result_df.rows[1][sort_idx + 1])
    IN
    IF ~result_df.ok THEN Raise("RuntimeError", TRUE)
    ELSE IF result_df.rows # <<>>
            /\ (Len(result_df.rows[1]) <= sort_idx
                \/ ~actual_subject.ok \/ actual_subject.val # subject_id)
         THEN [DataFrame(header(file_id), <<>>) EXCEPT !.opened = TRUE]
    ELSE [DataFrame(header(file_id), result_df.rows) EXCEPT !.opened = TRUE]

\* faulty variant of search_subject: a stored -1 is not told from an offset
search_subject_reads_sentinel(lookup_df, file_id, subject_id) ==
    IF ~HAS_INDEXED_GZIP THEN Raise("ImportError", FALSE)
    ELSE IF lookup_df = <<>> THEN Raise("FileNotFoundError", FALSE)
    ELSE
        LET df == lookup_df[1]
            hits == {i \in 1..Len(df.rows) : df.rows[i]["subject_id"] = subject_id}
            info == df.rows[CHOOSE i \in hits : TRUE]
            start_byte == info[start_col(file_id)]
            end_byte == info[end_col(file_id)]
        IN
        IF start_col(file_id) \notin Range(df.columns) \/ end_col(file_id) \notin Range(df.columns)
        THEN Raise("ValueError", FALSE)
        ELSE IF hits = {} THEN DataFrame(header(file_id), <<>>)
        ELSE read_range(file_id, subject_id, start_byte, end_byte)

\* faulty variant of search_subject: a subject without a row is answered as
\* absent before the columns of the dataset are looked for
search_subject_absent_first(lookup_df, file_id, subject_id) ==
    IF ~HAS_INDEXED_GZIP THEN Raise("ImportError", FALSE)
    ELSE IF lookup_df = <<>> THEN Raise("FileNotFoundError", FALSE)
    ELSE
        LET df == lookup_df[1]
            hits == {i \in 1..Len(df.rows) : df.rows[i]["subject_id"] = subject_id}
            info == df.rows[CHOOSE i \in hits : TRUE]
            start_byte == info[start_col(file_id)]
            end_byte == info[end_col(file_id)]
        IN
        IF hits = {} THEN DataFrame(header(file_id), <<>>)
        ELSE IF start_col(file_id) \notin Range(df.columns)
                \/ end_col(file_id) \notin Range(df.columns)
        THEN Raise("ValueError", FALSE)
        ELSE IF start_byte = -1 \/ end_byte = -1 THEN DataFrame(header(file_id), <<>>)
        ELSE read_range(file_id, subject_id, start_byte, end_byte)

search_subject(lookup_df, file_id, subject_id) ==
    IF ~HAS_INDEXED_GZIP THEN Raise("ImportError", FALSE)
    ELSE IF lookup_df = <<>> THEN Raise("FileNotFoundError", FALSE)
    ELSE
        LET df == lookup_df[1]
            hits == {i \in 1..Len(df.rows) : df.rows[i]["subject_id"] = subject_id}
            info == df.rows[CHOOSE i \in hits : TRUE]
            start_byte == info[start_col(file_id)]
            end_byte == info[end_col(file_id)]
        IN
        IF start_col(file_id) \notin Range(df.columns) \/ end_col(file_id) \notin Range(df.columns)
        THEN Raise("ValueError", FALSE)
        ELSE IF hits = {} THEN DataFrame(header(file_id), <<>>)
        ELSE IF start_byte = -1 \/ end_byte = -1 THEN DataFrame(header(file_id), <<>>)
        ELSE read_range(file_id, subject_id, start_byte, end_byte)

\* "with indexed_gzip.IndexedGzipFile(self.file_path) as f": what the search
\* does about the sidecar when it opens the reader. File_Filter imports the
\* sidecar when it exists and prints a warning when it does not; Filter
\* imports it when it exists and says nothing when it does not. Without an
\* imported index the reader builds its index in memory while it seeks.
open_reader(file_id, warns) ==
    IF idx_exists[file_id] THEN <<"import_index">>
    ELSE IF warns THEN <<"warning_no_idx">>
    ELSE <<>>

\* ------------------------------------------------------ Filter.search_subject
\* IDs[file_id]["rows"]: the registry holds the number of data rows of the file
total_rows(file_id) == Len(dataset[file_id])

\* the data rows of the file as pd.read_csv(file_path, skiprows=..., header=None)
\* parses them: the lines after the header line
data_rows(file_id) ==
    LET b == Uncompressed(file_id)
        first == Len(readline(b, 0))
    IN read_csv(SubSeq(b, first + 1, Len(b))).rows

\* the sort column of the file, one value per data row
sort_values(file_id) ==
    LET rows == data_rows(file_id)
        sort_idx == index_of(header(file_id), sort_col)
    IN [i \in 1..Len(rows) |-> int(rows[i][sort_idx + 1]).val]

\* Filter._get_value_at_index on the parsed sort column vals of a file with
\* total data rows registered: the value of data row index (0-based) as
\* <<value>>, or <<>> for None
get_value_at_index(vals, total, index) ==
    IF index < 0 \/ index >= total THEN <<>>
    ELSE IF index >= Len(vals) THEN <<>>
    ELSE <<vals[index + 1]>>

\* "1. Binary Search to find ANY instance": the index found, or -1
find_any(vals, total, subject_id) ==
    LET search[low \in Int, high \in Int] ==
            IF low > high THEN -1
            ELSE LET mid == (low + high) \div 2
                     mid_val == get_value_at_index(vals, total, mid)
                 IN IF mid_val = <<>> THEN -1
                    ELSE IF mid_val[1] = subject_id THEN mid
                    ELSE IF mid_val[1] < subject_id THEN search[mid + 1, high]
                    ELSE search[low, mid - 1]
    IN search[0, total - 1]

\* the exponential search from found_index to the left (dir = -1) or to the
\* right (dir = 1): <<index reached, step>>
expand(vals, total, subject_id, found_index, dir) ==
    LET walk[index \in Int, step \in Int] ==
            IF /\ index + dir * step >= 0
               /\ index + dir * step < total
               /\ get_value_at_index(vals, total, index + dir * step) = <<subject_id>>
            THEN walk[index + dir * step, step * 2]
            ELSE <<index, step>>
    IN walk[found_index, 1]

\* faulty variant of narrow: the boundary known after the exponential search
\* is taken as it is
narrow_keeps_known(vals, total, subject_id, low, high, known, dir) ==
    known

\* the binary search for the boundary within [low, high], from the boundary
\* known so far
narrow(vals, total, subject_id, low, high, known, dir) ==
    LET search[search_low \in Int, search_high \in Int, final \in Int] ==
            IF search_low > search_high THEN final
            ELSE LET mid == (search_low + search_high) \div 2
                     same == get_value_at_index(vals, total, mid) = <<subject_id>>
                 IN IF dir = -1
                    THEN (IF same THEN search[search_low, mid - 1, mid]
                          ELSE search[mid + 1, search_high, final])
                    ELSE (IF same THEN search[mid + 1, search_high, mid]
                          ELSE search[search_low, mid - 1, final])
    IN search[low, high, known]

Max(a, b) == IF a >= b THEN a ELSE b
Min(a, b) == IF a <= b THEN a ELSE b

\* "3. Load the chunk": the data rows start_index..end_index of the file
load_chunk(file_id, start_index, end_index) ==
    DataFrame(header(file_id), SubSeq(data_rows(file_id), start_index + 1, end_index + 1))

\* "--- Find Start Index ---": the exponential search to the left of
\* found_index, then the binary search within the last step
find_start(vals, total, subject_id, left) ==
    narrow(vals, total, subject_id, Max(0, left[1] - left[2]), left[1], left[1], -1)

\* "--- Find End Index ---"
find_end(vals, total, subject_id, right) ==
    narrow(vals, total, subject_id, right[1], Min(total - 1, right[1] + right[2]), right[1], 1)

\* "2. Expand search to find boundaries" and the load, from the index the
\* binary search found
expand_and_load(file_id, vals, total, subject_id, found_index) ==
    IF found_index = -1 THEN DataFrame(header(file_id), <<>>)
    ELSE load_chunk(file_id,
                    find_start(vals, total, subject_id,
                               expand(vals, total, subject_id, found_index, -1)),
                    find_end(vals, total, subject_id,
                             expand(vals, total, subject_id, found_index, 1)))

\* the binary search over the sort column vals of a file of total rows
search_rows(file_id, vals, total, subject_id) ==
    expand_and_load(file_id, vals, total, subject_id, find_any(vals, total, subject_id))

\* "Fallback: Binary Search": the rows of the subject found by row number
binary_search(file_id, subject_id) ==
    search_rows(file_id, sort_values(file_id), total_rows(file_id), subject_id)

\* "Optimized Path": the stored range of the subject is read when the table
\* can be used (<<batch>>), else nothing is returned (<<>>): the subject has
\* no row, the columns are missing, the start is -1 or the read raised
optimized_lookup(lookup_df, file_id, subject_id) ==
    LET df == lookup_df[1]
        hits == {i \in 1..Len(df.rows) : df.rows[i]["subject_id"] = subject_id}
        info == df.rows[CHOOSE i \in hits : TRUE]
        start_byte == info[start_col(file_id)]
        end_byte == info[end_col(file_id)]
        result_df ==
            read_csv(seek_read(Uncompressed(file_id), start_byte, end_byte - start_byte))
    IN
    IF /\ HAS_INDEXED_GZIP /\ lookup_df # <<>> /\ hits # {}
       /\ start_col(file_id) \in Range(df.columns) /\ end_col(file_id) \in Range(df.columns)
       /\ start_byte # -1
       /\ result_df.ok
    THEN <<result_df.rows>>
    ELSE <<>>

\* Filter.search_subject: the byte range of the table when it can be used,
\* else the binary search by row number; log names the path taken
Filter_search_subject(lookup_df, file_id, subject_id, optimized) ==
    IF optimized # <<>>
    THEN [df |-> [DataFrame(header(file_id), optimized[1]) EXCEPT !.opened = TRUE],
          log |-> open_reader(file_id, FALSE) \o <<"optimized">>]
    ELSE [df |-> binary_search(file_id, subject_id), log |-> <<"binary_search">>]

\* ------------------------------------------------------------------ states
RECURSIVE SeqsUpTo(_, _)
\* the sequences over S of length at most n
SeqsUpTo(S, n) ==
    IF n = 0 THEN {<<>>}
    ELSE LET shorter == SeqsUpTo(S, n - 1) IN
         shorter \cup {Append(q, x) : q \in shorter, x \in S}

NoDuplicates(q) == \A i, j \in 1..Len(q) : q[i] = q[j] => i = j

\* data rows with the given keys; the value field tells the rows apart
RowsOf(ids) == [i \in 1..Len(ids) |-> [sid |-> ids[i], val |-> <<Letters[i]>>]]

Datasets == {RowsOf(ids) : ids \in SeqsUpTo(DataIds, MaxRows)}

Tables ==
    {BaseTable(ids) : ids \in {q \in SeqsUpTo(TableIds, Cardinality(TableIds)) : NoDuplicates(q)}}
    \cup {NoTable}

\* the JSON null, the value of an absent "subject_id"
JsonNull == [kind |-> "null"]

\* the request threads of the web application
Threads == {1, 2}

\* a thread that is not inside search_subject
NoQuery == [pc |-> "idle", file_id |-> "", subject_id |-> 0, start_byte |-> 0,
            end_byte |-> 0, f |-> 0]

\* no reader is open
NoHandles == [h \in {} |-> [file_id |-> "", pos |-> 0]]

\* a build that has not been started
NoBuild == [pc |-> "idle", subjects_df |-> <<>>, status |-> "", offsets |-> NoOffsets]

NoResult ==
    [op |-> "none", file_id |-> "", subject_id |-> 0, status |-> "", offsets |-> NoOffsets,
     pre |-> NoTable, columns |-> <<>>, rows |-> <<>>, opened |-> FALSE, log |-> <<>>,
     entries |-> <<>>, request |-> [raw |-> JsonNull, random |-> FALSE], code |-> 0,
     called |-> FALSE, printed |-> <<>>, lookup |-> <<>>, scan |-> <<>>, lines |-> 0]

Init ==
    /\ HAS_INDEXED_GZIP \in BOOLEAN
    /\ \E a \in Datasets :
           dataset = [d \in FileIds |-> IF d = "A" THEN a ELSE RowsOf(OtherData)]
    /\ quoted \in BOOLEAN
    /\ sort_col_idx \in {0, 1}
    /\ table \in Tables
    /\ idx_exists = [d \in FileIds |-> FALSE]
    /\ result = NoResult
    /\ queries = [q \in Threads |-> NoQuery]
    /\ handles = NoHandles
    /\ builds = [d \in FileIds |-> NoBuild]
    /\ target_csv = NoTable

\* the statuses of the returns that precede the opening of the dataset
EarlyReturns == {"no_indexed_gzip", "no_target_csv", "no_subject_id_column"}

\* faulty variant of ensure_sidecar: the index is rebuilt and exported even
\* when the sidecar exists
ensure_sidecar_rebuilds(file_id) ==
    <<"build_full_index", "export_index">>

\* the reader calls of the build before "Scanning file for offsets..."
ensure_sidecar(file_id) ==
    IF idx_exists[file_id] THEN <<"import_index">>
    ELSE <<"build_full_index", "export_index">>

\* Filter.generate_byte_index of dataset file_id, as create_index calls it
generate_byte_index(file_id) ==
    LET out == build(file_id) IN
    /\ table' = out.table
    /\ idx_exists' = [idx_exists EXCEPT ![file_id] = out.idx]
    /\ result' = [NoResult EXCEPT !.op = "build", !.file_id = file_id,
                                  !.status = out.status, !.offsets = out.offsets,
                                  !.log = IF out.status \in EarlyReturns THEN <<>>
                                          ELSE ensure_sidecar(file_id) \o <<"readline">>,
                                  !.printed = IF out.status \in EarlyReturns THEN <<>>
                                              ELSE scan_file(file_id).printed,
                                  !.pre = table]
    /\ UNCHANGED <<HAS_INDEXED_GZIP, dataset, quoted, sort_col_idx>>
    /\ UNCHANGED in_flight
    /\ UNCHANGED target_csv

\* faulty variant of load_data: a search that opens the reader without a
\* sidecar exports the index it built
load_data_exports_index(file_id, subject_id) ==
    LET df == search_subject(load_lookup_table(table), file_id, subject_id) IN
    /\ result' = [NoResult EXCEPT !.op = "search", !.file_id = file_id,
                                  !.subject_id = subject_id, !.status = df.status,
                                  !.columns = df.columns, !.rows = df.rows,
                                  !.opened = df.opened, !.pre = table,
                                  !.log = IF df.opened THEN open_reader(file_id, TRUE)
                                          ELSE <<>>]
    /\ idx_exists' = [idx_exists EXCEPT ![file_id] = @ \/ df.opened]
    /\ UNCHANGED <<HAS_INDEXED_GZIP, dataset, quoted, sort_col_idx, table>>
    /\ UNCHANGED in_flight
    /\ UNCHANGED target_csv

\* File_Filter(file_id).search_subject(subject_id), as load_data calls it
load_data(file_id, subject_id) ==
    LET df == search_subject(load_lookup_table(table), file_id, subject_id) IN
    /\ result' = [NoResult EXCEPT !.op = "search", !.file_id = file_id,
                                  !.subject_id = subject_id, !.status = df.status,
                                  !.columns = df.columns, !.rows = df.rows,
                                  !.opened = df.opened, !.pre = table,
                                  !.log = IF df.opened THEN open_reader(file_id, TRUE)
                                          ELSE <<>>]
    /\ UNCHANGED <<HAS_INDEXED_GZIP, dataset, quoted, sort_col_idx, table, idx_exists>>
    /\ UNCHANGED in_flight
    /\ UNCHANGED target_csv

Next ==
    \/ \E file_id \in FileIds : generate_byte_index(file_id)
    \/ \E file_id \in FileIds, subject_id \in QueryIds : load_data(file_id, subject_id)

Spec == Init /\ [][Next]_vars

\* ------------------------------------------- Subject_Filter (the facade)
\* the value get_all_subject_data stores for one dataset: what the filter's
\* search_subject returns, pd.DataFrame() when the search raises, None when
\* the filter could not be initialized
fetch(initialized, file_id, subject_id) ==
    LET df == search_subject(load_lookup_table(table), file_id, subject_id) IN
    IF ~initialized THEN [kind |-> "None", columns |-> <<>>, rows |-> <<>>]
    ELSE IF df.status = "ok"
         THEN [kind |-> "DataFrame", columns |-> df.columns, rows |-> df.rows]
    ELSE [kind |-> "DataFrame", columns |-> <<>>, rows |-> <<>>]

\* Subject_Filter().get_all_subject_data(subject_id); failed holds the
\* datasets whose File_Filter raised while the facade was constructed
get_all_subject_data(subject_id, failed) ==
    /\ result' = [NoResult EXCEPT !.op = "get_all", !.subject_id = subject_id,
                                  !.entries = [d \in FileIds |->
                                                  fetch(d \notin failed, d, subject_id)],
                                  !.pre = table]
    /\ UNCHANGED <<HAS_INDEXED_GZIP, dataset, quoted, sort_col_idx, table, idx_exists>>
    /\ UNCHANGED in_flight
    /\ UNCHANGED target_csv

NextFacade ==
    \/ \E file_id \in FileIds : generate_byte_index(file_id)
    \/ \E subject_id \in QueryIds, failed \in SUBSET FileIds :
          get_all_subject_data(subject_id, failed)

\* builds, and queries through the facade
SpecFacade == Init /\ [][NextFacade]_vars

\* ------------------------------------------------ queries that run at once
\* the dataset load_data serves
ServedFileIds == {"A"}

HandleIds == 1..Cardinality(Threads)

\* faulty variant of IndexedGzipFile: one reader is kept and handed to every call
IndexedGzipFile_shared(open_handles) == 1

\* indexed_gzip.IndexedGzipFile(self.file_path): a new reader object, here
\* the first handle that is not open
IndexedGzipFile(open_handles) ==
    CHOOSE h \in HandleIds \ DOMAIN open_handles :
        \A k \in HandleIds \ DOMAIN open_handles : h <= k

\* start_byte and end_byte of the subject's row of the lookup table
byte_range(lookup_df, file_id, subject_id) ==
    LET df == lookup_df[1]
        info == df.rows[CHOOSE i \in 1..Len(df.rows) : df.rows[i]["subject_id"] = subject_id]
    IN <<info[start_col(file_id)], info[end_col(file_id)]>>

\* search_subject of thread q up to f.seek(start_byte): the checks of the
\* lookup table, which end the call when they fail or find no range, then
\* the opening of the reader and the seek
query_seek(q, file_id, subject_id) ==
    LET lookup_df == load_lookup_table(table)
        df == search_subject(lookup_df, file_id, subject_id)
        f == IndexedGzipFile(handles)
    IN
    /\ queries[q].pc = "idle"
    /\ IF df.opened
       THEN /\ queries' = [queries EXCEPT ![q] =
                   [pc |-> "sought", file_id |-> file_id, subject_id |-> subject_id,
                    start_byte |-> byte_range(lookup_df, file_id, subject_id)[1],
                    end_byte |-> byte_range(lookup_df, file_id, subject_id)[2],
                    f |-> f]]
            /\ handles' = [h \in DOMAIN handles \cup {f} |->
                              IF h = f
                              THEN [file_id |-> file_id,
                                    pos |-> byte_range(lookup_df, file_id, subject_id)[1]]
                              ELSE handles[h]]
            /\ UNCHANGED result
       ELSE /\ result' = [NoResult EXCEPT !.op = "query", !.file_id = file_id,
                                          !.subject_id = subject_id, !.status = df.status,
                                          !.columns = df.columns, !.rows = df.rows,
                                          !.pre = table]
            /\ UNCHANGED <<queries, handles>>
    /\ UNCHANGED <<HAS_INDEXED_GZIP, dataset, quoted, sort_col_idx, table, idx_exists, builds,
                   target_csv>>

\* search_subject of thread q from f.read(length_bytes): the read at the
\* reader's position, the end of the with block, which closes the reader,
\* then the parse and the check of the first row
query_read(q) ==
    LET me == queries[q]
        df == IF me.f \in DOMAIN handles
              THEN read_range(me.file_id, me.subject_id, handles[me.f].pos,
                              handles[me.f].pos + (me.end_byte - me.start_byte))
              ELSE Raise("RuntimeError", TRUE)
    IN
    /\ me.pc = "sought"
    /\ result' = [NoResult EXCEPT !.op = "query", !.file_id = me.file_id,
                                  !.subject_id = me.subject_id, !.status = df.status,
                                  !.columns = df.columns, !.rows = df.rows,
                                  !.opened = TRUE, !.pre = table]
    /\ handles' = [h \in DOMAIN handles \ {me.f} |-> handles[h]]
    /\ queries' = [queries EXCEPT ![q] = NoQuery]
    /\ UNCHANGED <<HAS_INDEXED_GZIP, dataset, quoted, sort_col_idx, table, idx_exists, builds,
                   target_csv>>

NextQueries ==
    \/ \E file_id \in ServedFileIds : generate_byte_index(file_id)
    \/ \E q \in Threads, file_id \in ServedFileIds, subject_id \in QueryIds :
          query_seek(q, file_id, subject_id)
    \/ \E q \in Threads : query_read(q)

\* the files before create_index has built the served dataset
InitQueries == Init /\ HAS_INDEXED_GZIP /\ table.exists /\ ~(quoted /\ sort_col_idx = 1)

\* a build of the served dataset, and the request threads of the web
\* application, each inside load_data
SpecQueries == InitQueries /\ [][NextQueries]_vars

\* ------------------------------------------------- builds that run at once
\* generate_byte_index of dataset file_id up to "Scanning file for
\* offsets...": the early returns, the read of the lookup CSV into
\* subjects_df, and the sidecar
build_begin(file_id) ==
    LET out == build(file_id) IN
    /\ builds[file_id].pc = "idle"
    /\ IF out.status \in EarlyReturns
       THEN /\ builds' = [builds EXCEPT ![file_id] =
                             [NoBuild EXCEPT !.pc = "done", !.status = out.status]]
            /\ UNCHANGED idx_exists
       ELSE /\ builds' = [builds EXCEPT ![file_id] =
                             [NoBuild EXCEPT !.pc = "scanning",
                                             !.subjects_df = read_table(table.data)]]
            /\ idx_exists' = [idx_exists EXCEPT ![file_id] = TRUE]
    /\ UNCHANGED <<HAS_INDEXED_GZIP, dataset, quoted, sort_col_idx, table, result,
                   queries, handles, target_csv>>

\* generate_byte_index of dataset file_id from the scan: the offsets, the
\* two columns set on the subjects_df read at the beginning, and to_csv
build_end(file_id) ==
    LET sf == scan_file(file_id)
        status == IF sf.error # "" THEN sf.error ELSE "written"
    IN
    /\ builds[file_id].pc = "scanning"
    /\ table' = IF sf.error # "" THEN table
                ELSE [exists |-> TRUE,
                      data |-> to_csv(update_columns(builds[file_id].subjects_df,
                                                     file_id, sf.offsets))]
    /\ builds' = [builds EXCEPT ![file_id] =
                     [NoBuild EXCEPT !.pc = "done", !.status = status,
                                     !.offsets = sf.offsets]]
    /\ result' = [NoResult EXCEPT !.op = "build_end", !.file_id = file_id,
                                  !.status = status, !.offsets = sf.offsets,
                                  !.pre = table]
    /\ UNCHANGED <<HAS_INDEXED_GZIP, dataset, quoted, sort_col_idx, idx_exists,
                   queries, handles, target_csv>>

NextBuilds ==
    \/ \E file_id \in FileIds : build_begin(file_id)
    \/ \E file_id \in FileIds : build_end(file_id)

InitBuilds == Init /\ HAS_INDEXED_GZIP /\ table.exists

\* one build of each dataset, each in a process of its own
SpecBuilds == InitBuilds /\ [][NextBuilds]_vars

\* ------------------------------------------------ the boundary of the program
\* the values a request gives for "subject_id": null, strings, integers, a
\* number with a fraction (whole.5), a list
RawIds ==
    {JsonNull,
     [kind |-> "str", text |-> <<>>],
     [kind |-> "str", text |-> <<"2">>],
     [kind |-> "str", text |-> <<"x">>],
     [kind |-> "int", val |-> 10],
     [kind |-> "int", val |-> 7],
     [kind |-> "float", whole |-> 2],
     [kind |-> "list", items |-> <<2>>]}

\* "not subject_id" is false
truthy(raw) ==
    CASE raw.kind = "null" -> FALSE
      [] raw.kind = "str" -> raw.text # <<>>
      [] raw.kind = "int" -> raw.val # 0
      [] raw.kind = "float" -> TRUE
      [] raw.kind = "list" -> raw.items # <<>>

\* int(subject_id): a string is parsed, a number with a fraction is cut to
\* its whole part, a list (or None) raises TypeError
py_int(raw) ==
    CASE raw.kind = "str" -> [error |-> IF int(raw.text).ok THEN "" ELSE "ValueError",
                              val |-> int(raw.text).val]
      [] raw.kind = "int" -> [error |-> "", val |-> raw.val]
      [] raw.kind = "float" -> [error |-> "", val |-> raw.whole]
      [] OTHER -> [error |-> "TypeError", val |-> 0]

\* df['subject_id'].tolist() of the CSV of subject ids, [] when the file
\* or the column is missing
tolist(lookup_df) ==
    IF lookup_df = <<>> THEN <<>> ELSE subject_ids(lookup_df[1])

\* app.config['SUBJECT_IDS'], as load_subject_ids reads it
SUBJECT_IDS == tolist(load_lookup_table(table))

\* the answer of load_data to what search_subject gave: an exception, an
\* empty DataFrame, or records, which are filtered for valueuom == 'bpm', a
\* column the files here do not have
answer_of(df) ==
    IF df.status # "ok" THEN [code |-> 500, status |-> "Error loading data"]
    ELSE IF df.rows = <<>> THEN [code |-> 404, status |-> "No data found"]
    ELSE IF <<"valueuom">> \notin Range(df.columns)
         THEN [code |-> 404, status |-> "No Heart Rate (BPM) data found"]
    ELSE [code |-> 200, status |-> "success"]

\* ff = File_Filter(file_id); df = ff.search_subject(subject_id), and the answer
respond(file_id, subject_id) ==
    answer_of(search_subject(load_lookup_table(table), file_id, subject_id))

\* the checks of load_data on a subject id the request gives: <<>> when it
\* passes them, else the answer
validate(raw, subject_id, available_ids) ==
    IF ~truthy(raw) THEN <<[code |-> 400, status |-> "Subject ID is required."]>>
    ELSE IF subject_id.error = "ValueError"
         THEN <<[code |-> 400, status |-> "Subject ID must be a number."]>>
    ELSE IF subject_id.error = "TypeError"
         THEN <<[code |-> 500, status |-> "Unexpected error"]>>
    ELSE IF available_ids # <<>> /\ subject_id.val \notin Range(available_ids)
         THEN <<[code |-> 404, status |-> "not found in the dataset"]>>
    ELSE <<>>

\* the end of load_data: the answer a check gave, or the answer of the search
reply(file_id, request, subject_id, refused) ==
    /\ result' = [NoResult EXCEPT
                     !.op = "api_load_data", !.file_id = file_id,
                     !.subject_id = subject_id, !.request = request,
                     !.code = IF refused # <<>> THEN refused[1].code
                              ELSE respond(file_id, subject_id).code,
                     !.status = IF refused # <<>> THEN refused[1].status
                                ELSE respond(file_id, subject_id).status,
                     !.called = (refused = <<>>), !.pre = table]
    /\ UNCHANGED <<HAS_INDEXED_GZIP, dataset, quoted, sort_col_idx, table, idx_exists>>
    /\ UNCHANGED in_flight
    /\ UNCHANGED target_csv

\* POST /api/load-data with {"subject_id": raw}
api_load_data(file_id, raw) ==
    reply(file_id, [raw |-> raw, random |-> FALSE], py_int(raw).val,
          validate(raw, py_int(raw), SUBJECT_IDS))

\* the check of load_data on a random request: there is an id to pick
validate_random(available_ids) ==
    IF available_ids = <<>>
    THEN <<[code |-> 500, status |-> "No subject IDs available"]>>
    ELSE <<>>

\* POST /api/load-data with {"random": true}; choice is what random.choice picks
api_load_random(file_id, choice) ==
    /\ choice \in Range(SUBJECT_IDS) \/ SUBJECT_IDS = <<>>
    /\ reply(file_id, [raw |-> JsonNull, random |-> TRUE], choice,
             validate_random(SUBJECT_IDS))

\* the dataset ids a caller may pass: the registered ones and one that is not
AnyFileIds == FileIds \cup {"X"}

\* create_index(target_file_id) for one dataset id
create_index(target_file_id) ==
    IF target_file_id \notin FileIds
    THEN /\ result' = [NoResult EXCEPT !.op = "create_index", !.file_id = target_file_id,
                                       !.status = "Unknown file_id", !.pre = table]
         /\ UNCHANGED <<HAS_INDEXED_GZIP, dataset, quoted, sort_col_idx, table, idx_exists>>
         /\ UNCHANGED in_flight
    /\ UNCHANGED target_csv
    ELSE generate_byte_index(target_file_id)

\* File_Filter(file_id) and Filter(file_path, file_id): the constructor
\* looks the id up in IDs before it touches a file
new_filter(file_id) ==
    /\ result' = [NoResult EXCEPT !.op = "new_filter", !.file_id = file_id,
                                  !.status = IF file_id \in FileIds THEN "ok"
                                             ELSE "ValueError",
                                  !.pre = table]
    /\ UNCHANGED <<HAS_INDEXED_GZIP, dataset, quoted, sort_col_idx, table, idx_exists>>
    /\ UNCHANGED in_flight
    /\ UNCHANGED target_csv

NextApi ==
    \/ \E target_file_id \in ServedFileIds \cup {"X"} : create_index(target_file_id)
    \/ \E file_id \in AnyFileIds : new_filter(file_id)
    \/ \E file_id \in ServedFileIds, raw \in RawIds : api_load_data(file_id, raw)
    \/ \E file_id \in ServedFileIds, choice \in QueryIds : api_load_random(file_id, choice)

InitApi == Init /\ HAS_INDEXED_GZIP /\ ~(quoted /\ sort_col_idx = 1)

\* the entry points that take a dataset id or a subject id from outside
SpecApi == InitApi /\ [][NextApi]_vars

\* ------------------------------------------------- faults of the files on disk
RECURSIVE line_starts(_, _)
\* the offsets at which a data line of the uncompressed bytes b starts, from pos
line_starts(b, pos) ==
    IF pos >= Len(b) THEN {}
    ELSE {pos} \cup line_starts(b, pos + Len(readline(b, pos)))

\* the lookup CSV a build has just written is edited outside the program: the
\* start stored for subject_id in the columns of file_id is overwritten with
\* the offset of another data line that lies before the stored end;
\* search_subject reads whatever the file holds
overwrite_start(file_id, subject_id, offset) ==
    LET df == read_table(table.data)
        sc == start_col(file_id)
        ec == end_col(file_id)
        hit(i) == df.rows[i]["subject_id"] = subject_id
        newrow(i) == IF hit(i) THEN [df.rows[i] EXCEPT ![sc] = offset] ELSE df.rows[i]
    IN
    /\ result.op = "build" /\ result.status = "written" /\ result.file_id = file_id
    /\ sc \in Range(df.columns) /\ ec \in Range(df.columns)
    /\ \E i \in 1..Len(df.rows) :
          hit(i) /\ df.rows[i][sc] \notin {-1, offset} /\ offset < df.rows[i][ec]
    /\ table' = [exists |-> TRUE,
                 data |-> to_csv([columns |-> df.columns,
                                  rows |-> [i \in 1..Len(df.rows) |-> newrow(i)]])]
    /\ result' = [NoResult EXCEPT !.op = "overwrite", !.file_id = file_id,
                                  !.subject_id = subject_id, !.pre = table]
    /\ UNCHANGED <<HAS_INDEXED_GZIP, dataset, quoted, sort_col_idx, idx_exists>>
    /\ UNCHANGED in_flight
    /\ UNCHANGED target_csv

\* Filter(file_path, file_id).search_subject(subject_id)
filter_search(file_id, subject_id) ==
    LET out == Filter_search_subject(load_lookup_table(table), file_id, subject_id,
                   optimized_lookup(load_lookup_table(table), file_id, subject_id)) IN
    /\ result' = [NoResult EXCEPT !.op = "filter_search", !.file_id = file_id,
                                  !.subject_id = subject_id, !.status = out.df.status,
                                  !.columns = out.df.columns, !.rows = out.df.rows,
                                  !.opened = out.df.opened, !.log = out.log,
                                  !.pre = table]
    /\ UNCHANGED <<HAS_INDEXED_GZIP, dataset, quoted, sort_col_idx, table, idx_exists>>
    /\ UNCHANGED in_flight
    /\ UNCHANGED target_csv

\* the .idx sidecar of file_id is deleted outside the program
remove_sidecar(file_id) ==
    /\ idx_exists[file_id]
    /\ idx_exists' = [idx_exists EXCEPT ![file_id] = FALSE]
    /\ result' = [NoResult EXCEPT !.op = "remove_sidecar", !.file_id = file_id, !.pre = table]
    /\ UNCHANGED <<HAS_INDEXED_GZIP, dataset, quoted, sort_col_idx, table>>
    /\ UNCHANGED in_flight
    /\ UNCHANGED target_csv

\* the dataset whose files are changed from outside: the one whose content
\* varies (the other holds one line, so no start can point at another line)
FaultFileIds == {"A"}

NextFaults ==
    \/ \E file_id \in FaultFileIds : generate_byte_index(file_id)
    \/ \E file_id \in FaultFileIds, subject_id \in QueryIds : load_data(file_id, subject_id)
    \/ \E file_id \in FaultFileIds, subject_id \in QueryIds : filter_search(file_id, subject_id)
    \/ \E file_id \in FaultFileIds, subject_id \in TableIds :
          \E offset \in line_starts(Uncompressed(file_id), Len(readline(Uncompressed(file_id), 0))) :
              overwrite_start(file_id, subject_id, offset)
    \/ \E file_id \in FaultFileIds : remove_sidecar(file_id)

\* the initial states from which a build can write the table: only they lead
\* to files that have something to lose
InitFaults == Init /\ HAS_INDEXED_GZIP /\ table.exists /\ ~(quoted /\ sort_col_idx = 1)

\* the program run on files that are also changed from outside
SpecFaults == InitFaults /\ [][NextFaults]_vars

\* ----------------------------------------------------- reads that can fail
\* "except Exception as e: raise RuntimeError(error_msg) from e" of
\* File_Filter.search_subject: what the caller gets for an error raised
\* inside the try block
except_handler(error) == "RuntimeError"

\* File_Filter.search_subject when f.read raises OSError (fails) once the
\* reader is open
search_subject_io(lookup_df, file_id, subject_id, fails) ==
    LET df == search_subject(lookup_df, file_id, subject_id) IN
    IF df.opened /\ fails THEN Raise(except_handler("OSError"), TRUE) ELSE df

\* the optimized path of Filter.search_subject gets as far as the reader
optimized_opens(lookup_df, file_id, subject_id) ==
    LET df == lookup_df[1]
        hits == {i \in 1..Len(df.rows) : df.rows[i]["subject_id"] = subject_id}
        info == df.rows[CHOOSE i \in hits : TRUE]
    IN /\ HAS_INDEXED_GZIP /\ lookup_df # <<>> /\ hits # {}
       /\ start_col(file_id) \in Range(df.columns) /\ end_col(file_id) \in Range(df.columns)
       /\ info[start_col(file_id)] # -1

\* File_Filter(file_id).search_subject(subject_id) with a read that may fail
search_io(file_id, subject_id, fails) ==
    LET df == search_subject_io(load_lookup_table(table), file_id, subject_id, fails) IN
    /\ result' = [NoResult EXCEPT !.op = "search_io", !.file_id = file_id,
                                  !.subject_id = subject_id, !.status = df.status,
                                  !.columns = df.columns, !.rows = df.rows,
                                  !.opened = df.opened, !.pre = table,
                                  !.log = IF ~df.opened THEN <<>>
                                          ELSE IF fails THEN <<"read", "OSError">>
                                          ELSE <<"read">>]
    /\ UNCHANGED <<HAS_INDEXED_GZIP, dataset, quoted, sort_col_idx, table, idx_exists>>
    /\ UNCHANGED in_flight
    /\ UNCHANGED target_csv

\* Filter.search_subject with a read of the optimized path that may fail:
\* the except clause prints the error and the binary search follows
filter_search_io(file_id, subject_id, fails) ==
    LET opens == optimized_opens(load_lookup_table(table), file_id, subject_id)
        out == Filter_search_subject(load_lookup_table(table), file_id, subject_id,
                   IF opens /\ fails THEN <<>>
                   ELSE optimized_lookup(load_lookup_table(table), file_id, subject_id))
    IN
    /\ result' = [NoResult EXCEPT !.op = "filter_search_io", !.file_id = file_id,
                                  !.subject_id = subject_id, !.status = out.df.status,
                                  !.columns = out.df.columns, !.rows = out.df.rows,
                                  !.opened = opens, !.pre = table,
                                  !.log = IF opens /\ fails
                                          THEN <<"read", "OSError">> \o out.log
                                          ELSE IF opens THEN <<"read">>
                                          ELSE out.log]
    /\ UNCHANGED <<HAS_INDEXED_GZIP, dataset, quoted, sort_col_idx, table, idx_exists>>
    /\ UNCHANGED in_flight
    /\ UNCHANGED target_csv

NextIo ==
    \/ \E file_id \in FaultFileIds : generate_byte_index(file_id)
    \/ \E file_id \in FaultFileIds, subject_id \in QueryIds, fails \in BOOLEAN :
          search_io(file_id, subject_id, fails)
    \/ \E file_id \in FaultFileIds, subject_id \in QueryIds, fails \in BOOLEAN :
          filter_search_io(file_id, subject_id, fails)

\* builds, and searches whose read of the dataset may raise OSError
SpecIo == InitFaults /\ [][NextIo]_vars

\* ------------------------------------------------------ builds that abort
\* generate_byte_index of dataset file_id when a read of the scan raises
\* OSError: the exception leaves the with block and the method before the
\* "Update DataFrame" part, and create_index prints it and goes on
build_read_error(file_id) ==
    /\ build(file_id).status \notin EarlyReturns
    /\ idx_exists' = [idx_exists EXCEPT ![file_id] = TRUE]
    /\ result' = [NoResult EXCEPT !.op = "build", !.file_id = file_id,
                                  !.status = "OSError",
                                  !.log = ensure_sidecar(file_id) \o <<"readline">>,
                                  !.pre = table]
    /\ UNCHANGED <<HAS_INDEXED_GZIP, dataset, quoted, sort_col_idx, table>>
    /\ UNCHANGED in_flight
    /\ UNCHANGED target_csv

NextAborts ==
    \/ \E file_id \in FileIds : generate_byte_index(file_id)
    \/ \E file_id \in FileIds : build_read_error(file_id)

\* the builds of create_index, each of which may fail while it reads
SpecAborts == Init /\ [][NextAborts]_vars

\* ------------------------------------------------- a table with wrong ranges
\* the lookup CSV a build has just written is edited outside the program: the
\* end stored for subject_id in the columns of file_id is overwritten with
\* the offset of a later line boundary
overwrite_end(file_id, subject_id, offset) ==
    LET df == read_table(table.data)
        sc == start_col(file_id)
        ec == end_col(file_id)
        hit(i) == df.rows[i]["subject_id"] = subject_id
        newrow(i) == IF hit(i) THEN [df.rows[i] EXCEPT ![ec] = offset] ELSE df.rows[i]
    IN
    /\ result.op = "build" /\ result.status = "written" /\ result.file_id = file_id
    /\ sc \in Range(df.columns) /\ ec \in Range(df.columns)
    /\ \E i \in 1..Len(df.rows) :
          hit(i) /\ df.rows[i][sc] # -1 /\ df.rows[i][ec] < offset
    /\ table' = [exists |-> TRUE,
                 data |-> to_csv([columns |-> df.columns,
                                  rows |-> [i \in 1..Len(df.rows) |-> newrow(i)]])]
    /\ result' = [NoResult EXCEPT !.op = "overwrite", !.file_id = file_id,
                                  !.subject_id = subject_id, !.pre = table]
    /\ UNCHANGED <<HAS_INDEXED_GZIP, dataset, quoted, sort_col_idx, idx_exists>>
    /\ UNCHANGED in_flight
    /\ UNCHANGED target_csv

\* the offsets at which a line of b ends
line_ends(b) == {pos + Len(readline(b, pos)) : pos \in line_starts(b, 0)}

NextCorrupt ==
    \/ \E file_id \in FaultFileIds : generate_byte_index(file_id)
    \/ \E file_id \in FaultFileIds, subject_id \in QueryIds : load_data(file_id, subject_id)
    \/ \E file_id \in FaultFileIds, subject_id \in TableIds :
          \E offset \in line_starts(Uncompressed(file_id), Len(readline(Uncompressed(file_id), 0))) :
              overwrite_start(file_id, subject_id, offset)
    \/ \E file_id \in FaultFileIds, subject_id \in TableIds :
          \E offset \in line_ends(Uncompressed(file_id)) :
              overwrite_end(file_id, subject_id, offset)

\* builds and File_Filter searches on a table whose ranges may be edited
SpecCorrupt == InitFaults /\ [][NextCorrupt]_vars

\* ------------------------------------------ a build given another table path
\* the subject id table is copied to a path other than Filter.lookup_path
copy_table ==
    /\ table.exists
    /\ target_csv' = table
    /\ result' = [NoResult EXCEPT !.op = "copy"]
    /\ UNCHANGED <<HAS_INDEXED_GZIP, dataset, quoted, sort_col_idx, table, idx_exists>>
    /\ UNCHANGED in_flight

\* Filter._load_lookup_table on an object whose lookup_df is old: the file at
\* self.lookup_path replaces it when it exists and has a subject_id column
reload_lookup_table(t, old) ==
    IF load_lookup_table(t) = <<>> THEN old ELSE load_lookup_table(t)

\* what generate_byte_index(lookup_csv_path) does when the table it reads
\* and writes is the file t at lookup_csv_path
build_at(t, file_id) ==
    LET sf == scan_file(file_id)
        subjects_df == read_table(t.data)
        none == [status |-> "", offsets |-> NoOffsets, table |-> t, idx |-> idx_exists[file_id]]
    IN
    IF ~HAS_INDEXED_GZIP THEN [none EXCEPT !.status = "no_indexed_gzip"]
    ELSE IF ~t.exists THEN [none EXCEPT !.status = "no_target_csv"]
    ELSE IF "subject_id" \notin Range(subjects_df.columns)
         THEN [none EXCEPT !.status = "no_subject_id_column"]
    ELSE IF sf.error # "" THEN [none EXCEPT !.status = sf.error, !.idx = TRUE]
    ELSE [status |-> "written", offsets |-> sf.offsets,
          table |-> [exists |-> TRUE,
                     data |-> to_csv(update_columns(subjects_df, file_id, sf.offsets))],
          idx |-> TRUE]

\* Filter(file_path, file_id).generate_byte_index(lookup_csv_path) with a
\* lookup_csv_path that is not self.lookup_path: the constructor loads
\* lookup_df from self.lookup_path, the build reads and writes the file at
\* lookup_csv_path, and the reload at the end reads self.lookup_path again
generate_byte_index_at(file_id) ==
    LET out == build_at(target_csv, file_id)
        lookup_df == load_lookup_table(table)
    IN
    /\ target_csv' = out.table
    /\ idx_exists' = [idx_exists EXCEPT ![file_id] = out.idx]
    /\ result' = [NoResult EXCEPT !.op = "build_at", !.file_id = file_id,
                                  !.status = out.status, !.offsets = out.offsets,
                                  !.pre = target_csv,
                                  !.lookup = IF out.status = "written"
                                             THEN reload_lookup_table(table, lookup_df)
                                             ELSE lookup_df]
    /\ UNCHANGED <<HAS_INDEXED_GZIP, dataset, quoted, sort_col_idx, table>>
    /\ UNCHANGED in_flight

NextPaths ==
    \/ copy_table
    \/ \E file_id \in FaultFileIds : generate_byte_index(file_id)
    \/ \E file_id \in FaultFileIds : generate_byte_index_at(file_id)

\* builds whose table is the default one or a copy of it at another path
SpecPaths == InitFaults /\ [][NextPaths]_vars

\* ------------------------------------------------- searches by row number
\* files long enough for the boundary searches to take more than one step
SearchRows == MaxRows + 2

\* the subjects asked for: those of the files and one that lies between them
SearchIds == QueryIds \cup {5}

InitSearch ==
    /\ HAS_INDEXED_GZIP \in BOOLEAN
    /\ \E ids \in SeqsUpTo(DataIds, SearchRows) :
           dataset = [d \in FileIds |-> IF d = "A" THEN RowsOf(ids) ELSE RowsOf(OtherData)]
    /\ quoted \in BOOLEAN
    /\ sort_col_idx \in {0, 1}
    /\ table \in {NoTable, BaseTable(<<2, 10>>)}
    /\ idx_exists = [d \in FileIds |-> FALSE]
    /\ result = NoResult
    /\ queries = [q \in Threads |-> NoQuery]
    /\ handles = NoHandles
    /\ builds = [d \in FileIds |-> NoBuild]
    /\ target_csv = NoTable

NextSearch ==
    \E subject_id \in SearchIds : filter_search("A", subject_id)

\* Filter.search_subject on files no build has indexed
SpecSearch == InitSearch /\ [][NextSearch]_vars

\* ------------------------------------------------- the scan, line by line
\* data rows of the given kinds, <<key>> or <<>> for a row without a key
RowsOfKinds(kinds) ==
    [i \in 1..Len(kinds) |->
        IF kinds[i] = <<>> THEN [val |-> <<Letters[i]>>]
        ELSE [sid |-> kinds[i][1], val |-> <<Letters[i]>>]]

LineKinds == {<<k>> : k \in DataIds} \cup {<<>>}

InitScan ==
    /\ HAS_INDEXED_GZIP = TRUE
    /\ \E kinds \in SeqsUpTo(LineKinds, MaxRows) :
           dataset = [d \in FileIds |-> IF d = "A" THEN RowsOfKinds(kinds)
                                        ELSE RowsOf(OtherData)]
    /\ quoted \in BOOLEAN
    /\ sort_col_idx \in {0, 1}
    /\ table = BaseTable(<<2, 10>>)
    /\ idx_exists = [d \in FileIds |-> FALSE]
    /\ result = NoResult
    /\ queries = [q \in Threads |-> NoQuery]
    /\ handles = NoHandles
    /\ builds = [d \in FileIds |-> NoBuild]
    /\ target_csv = NoTable

\* "subject_col_idx = cols.index(self.sort_col)" on the header line of b
column_index(b) ==
    index_of(split(strip(readline(b, 0), Whitespace), Len(readline(b, 0))), sort_col)

\* the locals of the scan after "Skip header", before the first data line
scan_start(b) ==
    [pos |-> Len(readline(b, 0)), current_offset |-> Len(readline(b, 0)),
     current_subject |-> <<>>, subject_start_offset |-> Len(readline(b, 0)),
     offsets |-> NoOffsets, error |-> "", printed |-> <<>>]

\* generate_byte_index of dataset file_id up to "for line in f"
scan_open(file_id) ==
    /\ result.op # "scan"
    /\ build(file_id).status \notin EarlyReturns
    /\ idx_exists' = [idx_exists EXCEPT ![file_id] = TRUE]
    /\ result' = [NoResult EXCEPT !.op = "scan", !.file_id = file_id,
                                  !.scan = <<scan_start(Uncompressed(file_id))>>,
                                  !.pre = table]
    /\ UNCHANGED <<HAS_INDEXED_GZIP, dataset, quoted, sort_col_idx, table>>
    /\ UNCHANGED in_flight
    /\ UNCHANGED target_csv

\* one iteration of "for line in f" of the scan that is open
scan_step(b, st) ==
    /\ st.error = ""
    /\ st.pos < Len(b)
    /\ result' = [result EXCEPT
                    !.scan = <<[ProcessLine(readline(b, st.pos), column_index(b), st)
                                   EXCEPT !.pos = st.pos + Len(readline(b, st.pos))]>>,
                    !.lines = @ + 1]
    /\ UNCHANGED <<HAS_INDEXED_GZIP, dataset, quoted, sort_col_idx, table, idx_exists>>
    /\ UNCHANGED in_flight
    /\ UNCHANGED target_csv

\* the end of the scan that is open: the exception of a line that has no
\* integer key leaves the method, else "Last subject", the update of the
\* two columns and to_csv
scan_finish(file_id, b, st) ==
    /\ st.error # "" \/ st.pos >= Len(b)
    /\ table' = IF st.error # "" THEN table
                ELSE [exists |-> TRUE,
                      data |-> to_csv(update_columns(read_table(table.data), file_id,
                                                     flush_last(st).offsets))]
    /\ result' = [NoResult EXCEPT !.op = "build", !.file_id = file_id,
                                  !.status = IF st.error # "" THEN st.error ELSE "written",
                                  !.offsets = flush_last(st).offsets,
                                  !.printed = st.printed,
                                  !.pre = table]
    /\ UNCHANGED <<HAS_INDEXED_GZIP, dataset, quoted, sort_col_idx, idx_exists>>
    /\ UNCHANGED in_flight
    /\ UNCHANGED target_csv

\* the scan of dataset file_id is open and reads its next line
scan_line(file_id) ==
    /\ result.op = "scan"
    /\ result.file_id = file_id
    /\ scan_step(Uncompressed(file_id), result.scan[1])

\* the scan of dataset file_id is open and the loop has ended
scan_close(file_id) ==
    /\ result.op = "scan"
    /\ result.file_id = file_id
    /\ scan_finish(file_id, Uncompressed(file_id), result.scan[1])

NextScan ==
    \/ \E file_id \in FaultFileIds : scan_open(file_id)
    \/ \E file_id \in FaultFileIds : scan_line(file_id)
    \/ \E file_id \in FaultFileIds : scan_close(file_id)

\* a build of a file that may hold lines without a key, one line at a time
SpecScan == InitScan /\ [][NextScan]_vars

\* ===================================================================== claims
\* what the dataset files hold, told from the rows they were written from
Keys(d) == [i \in 1..Len(dataset[d]) |-> dataset[d][i].sid]

Sorted(d) == \A i, j \in 1..Len(dataset[d]) : i <= j => Keys(d)[i] <= Keys(d)[j]

O0 == Len(HeaderLine)

Size(d) == Len(Uncompressed(d))

\* offset of the first byte of data row i (of the end of file for i = rows + 1)
RowStart(d, i) == O0 + Len(Concat([k \in 1..(i - 1) |-> LineOf(dataset[d][k])]))

HeaderNames == IF sort_col_idx = 0 THEN <<sort_col, val_col>> ELSE <<val_col, sort_col>>

\* the records of subject s in dataset d, in file order
RecordsOf(d, s) ==
    LET mine(row) == row.sid = s
        rows == SelectSeq(dataset[d], mine)
    IN [i \in 1..Len(rows) |-> RecordOf(rows[i])]

\* the last operation was a build that scanned its dataset and wrote the table
Written == result.op = "build" /\ result.status = "written"

\* the table file as a reader of the CSV sees it
OnDisk(t) == read_table(t.data)

HasColumns(t, d) ==
    /\ t.exists
    /\ start_col(d) \in Range(OnDisk(t).columns)
    /\ end_col(d) \in Range(OnDisk(t).columns)

\* C1: after the scan of a dataset sorted on the sort column, the recorded
\* ranges lie in [O0, size), and every byte of [O0, size) is in exactly one
\* of them: they are pairwise disjoint and cover the data region.
C1_RangesPartitionDataRegion ==
    (Written /\ Sorted(result.file_id)) =>
        LET d == result.file_id
            off == result.offsets
        IN /\ \A s \in DOMAIN off :
                  O0 <= off[s][1] /\ off[s][1] <= off[s][2] /\ off[s][2] <= Size(d)
           /\ \A p \in O0..(Size(d) - 1) :
                  Cardinality({s \in DOMAIN off : off[s][1] <= p /\ p < off[s][2]}) = 1

\* a sorted dataset with two subjects, the first on two rows, was scanned
C1_Witness ==
    /\ Written
    /\ Sorted(result.file_id)
    /\ Len(dataset[result.file_id]) = 3
    /\ Cardinality(DOMAIN result.offsets) = 2

\* C2: after a build, every recorded range [a, b) of a subject s starts and
\* ends on a record boundary, is not empty, and every record in it is a
\* complete newline-terminated record with sort-column value s.
C2_RangeHoldsOnlyItsSubject ==
    Written =>
        LET d == result.file_id
            off == result.offsets
            n == Len(dataset[d])
            bytes == Uncompressed(d)
        IN \A s \in DOMAIN off :
              /\ off[s][1] < off[s][2]
              /\ \E i \in 1..n : RowStart(d, i) = off[s][1]
              /\ \E i \in 2..(n + 1) : RowStart(d, i) = off[s][2]
              /\ bytes[off[s][2]] = NL
              /\ \A i \in 1..n :
                    (off[s][1] <= RowStart(d, i) /\ RowStart(d, i) < off[s][2])
                        => Keys(d)[i] = s

\* a build recorded a range of two records and the range of another subject
C2_Witness ==
    /\ Written
    /\ Cardinality(DOMAIN result.offsets) = 2
    /\ \E s \in DOMAIN result.offsets, i \in 1..(Len(dataset[result.file_id]) - 1) :
          /\ RowStart(result.file_id, i) = result.offsets[s][1]
          /\ RowStart(result.file_id, i + 2) = result.offsets[s][2]

\* C3: with the table a build of the sorted dataset wrote, a search for a
\* subject that has a row in the table and occurs in the dataset returns
\* exactly the subject's records, in file order, under the header's column
\* names in header order.
C3_SearchReturnsSubjectRecords ==
    (/\ result.op = "search"
     /\ HasColumns(table, result.file_id)
     /\ Sorted(result.file_id)
     /\ result.subject_id \in Range(subject_ids(OnDisk(table)))
     /\ result.subject_id \in Range(Keys(result.file_id)))
    => /\ result.status = "ok"
       /\ result.columns = HeaderNames
       /\ result.rows = RecordsOf(result.file_id, result.subject_id)

\* a search returned the two records of a subject that is followed by another
C3_Witness ==
    /\ result.op = "search"
    /\ HasColumns(table, result.file_id)
    /\ Sorted(result.file_id)
    /\ Len(result.rows) = 2
    /\ Cardinality(Range(Keys(result.file_id))) = 2
    /\ result.subject_id = Keys(result.file_id)[1]

\* the row batches of one query per subject of S, in ascending key order,
\* put end to end; the queries read the table as it is on disk
QueryAll(d, S) ==
    LET order == Ascending(S) IN
    Concat([i \in 1..Len(order) |->
               search_subject(load_lookup_table(table), d, order[i]).rows])

InTable(s) == s \in Range(subject_ids(OnDisk(table)))

StoredRange(t, d, s) ==
    LET df == OnDisk(t)
        i == CHOOSE k \in 1..Len(df.rows) : df.rows[k]["subject_id"] = s
    IN <<df.rows[i][start_col(d)], df.rows[i][end_col(d)]>>

\* C5: after a build of dataset D, a row of the table whose subject does not
\* occur in D has (-1, -1) in D's columns, and a row whose subject occurs
\* in D has a range: neither column is -1 and start < end.
C5_AbsenceEncoding ==
    Written =>
        LET d == result.file_id IN
        \A s \in Range(subject_ids(OnDisk(table))) :
            IF s \in Range(Keys(d))
            THEN /\ StoredRange(table, d, s)[1] >= O0
                 /\ StoredRange(table, d, s)[1] < StoredRange(table, d, s)[2]
            ELSE StoredRange(table, d, s) = <<-1, -1>>

\* the table holds two subjects and the built dataset only one of them
C5_Witness ==
    /\ Written
    /\ Len(OnDisk(table).rows) = 2
    /\ \E s, t \in Range(subject_ids(OnDisk(table))) :
          /\ s \in Range(Keys(result.file_id))
          /\ t \notin Range(Keys(result.file_id))
          /\ StoredRange(table, result.file_id, t) = <<-1, -1>>
          /\ StoredRange(table, result.file_id, s)[1] >= O0

IsAscending(q) == \A i, j \in 1..Len(q) : i < j => q[i] < q[j]

C8_SecondBuildKeepsTableBytes ==
    [][\A d \in FileIds :
          (Written /\ result.file_id = d /\ generate_byte_index(d)) => table' = table]_vars

\* a build ran on a dataset whose columns an earlier build had written, and
\* wrote the table again
C8_Witness ==
    /\ Written
    /\ HasColumns(result.pre, result.file_id)
    /\ \E s \in DOMAIN result.offsets : InTable(s)
    /\ result.pre = table

\* the two columns of dataset d hold at least one entry that is not -1
Populated(t, d) ==
    /\ HasColumns(t, d)
    /\ \E i \in 1..Len(OnDisk(t).rows) : OnDisk(t).rows[i][start_col(d)] # -1

\* the last run of subject s in dataset d, as a byte range
LastRun(d, s) ==
    LET keys == Keys(d)
        last == CHOOSE i \in 1..Len(keys) :
                    keys[i] = s /\ \A k \in (i + 1)..Len(keys) : keys[k] # s
        first == CHOOSE j \in 1..last :
                    /\ \A k \in j..last : keys[k] = s
                    /\ (j = 1 \/ keys[j - 1] # s)
    IN <<RowStart(d, first), RowStart(d, last + 1)>>

C10_AbsentSubjectGivesEmptyBatch ==
    (/\ result.op = "search"
     /\ load_lookup_table(table) # <<>>
     /\ HasColumns(table, result.file_id)
     /\ \/ ~InTable(result.subject_id)
        \/ StoredRange(table, result.file_id, result.subject_id) = <<-1, -1>>)
    => /\ result.status = "ok"
       /\ result.rows = <<>>
       /\ result.columns = HeaderNames
       /\ ~result.opened

\* a search for a subject whose row holds (-1, -1) returned the empty batch
C10_Witness ==
    /\ result.op = "search"
    /\ HasColumns(table, result.file_id)
    /\ InTable(result.subject_id)
    /\ StoredRange(table, result.file_id, result.subject_id) = <<-1, -1>>
    /\ result.status = "ok"
    /\ result.columns = HeaderNames

\* the sort-column value of the first row parsed from the range the table
\* stores for subject s of dataset d, as [ok, val]
FirstRowKey(t, d, s) ==
    LET r == StoredRange(t, d, s)
        rows == read_csv(seek_read(Uncompressed(d), r[1], r[2] - r[1])).rows
    IN int(rows[1][index_of(header(d), sort_col) + 1])

\* the last search read a stored range whose first row is of another subject
FirstRowMismatch ==
    /\ result.op = "search"
    /\ result.opened
    /\ FirstRowKey(result.pre, result.file_id, result.subject_id).ok
    /\ FirstRowKey(result.pre, result.file_id, result.subject_id).val # result.subject_id

\* C11: when the first row parsed from the stored range of subject s has a
\* sort-column value other than s, the search signals an error to the caller
\* and returns no row batch.
C11_MismatchIsSignalledAsError ==
    FirstRowMismatch => result.status # "ok"

\* C12: no subject query falls back to a scan of the dataset by row number:
\* every query is answered from the stored byte range, answered as absent
\* without a read of the dataset, or fails with an error.
C12_NoFallbackToScan ==
    result.op \in {"search", "filter_search"} => "binary_search" \notin Range(result.log)

\* the table is not loaded, or lacks a range column of dataset d
IndexMissing(t, d) == load_lookup_table(t) = <<>> \/ ~HasColumns(t, d)

\* C13 as stated: whenever the table is not loaded or lacks the dataset's
\* start/end columns, search_subject fails with a missing-index error, for
\* every subject_id; it returns no batch and does not read the dataset.
C13_MissingIndexError ==
    (result.op = "search" /\ IndexMissing(result.pre, result.file_id))
        => /\ result.status \in {"FileNotFoundError", "ValueError"}
           /\ ~result.opened

\* C13 amended: in that state search_subject always fails, returns no batch
\* and does not read the dataset, for every subject_id; the error is the
\* missing-index error (FileNotFoundError for a table that is not loaded,
\* ValueError for missing columns) when indexed_gzip is importable, and
\* ImportError, raised before the table is looked at, when it is not.
C13_MissingIndexOrImportError ==
    (result.op = "search" /\ IndexMissing(result.pre, result.file_id))
        => /\ result.status =
                  IF ~HAS_INDEXED_GZIP THEN "ImportError"
                  ELSE IF load_lookup_table(result.pre) = <<>> THEN "FileNotFoundError"
                  ELSE "ValueError"
           /\ result.rows = <<>> /\ result.columns = <<>>
           /\ ~result.opened

\* a subject without a row was searched in a table that lacks the columns,
\* and the search raised ValueError
C13_Witness ==
    /\ result.op = "search"
    /\ HAS_INDEXED_GZIP
    /\ load_lookup_table(result.pre) # <<>>
    /\ ~HasColumns(result.pre, result.file_id)
    /\ result.subject_id \notin Range(subject_ids(OnDisk(result.pre)))
    /\ result.status = "ValueError"

\* the records of the data rows of dataset d that start within the range r
RecordsInRange(d, r) ==
    LET inside(i) == r[1] <= RowStart(d, i) /\ RowStart(d, i) < r[2]
        rows == [i \in 1..Len(dataset[d]) |-> i]
        picked == SelectSeq(rows, inside)
    IN [k \in 1..Len(picked) |-> RecordOf(dataset[d][picked[k]])]

\* the last query read the range the build had stored for its subject, and
\* the sidecar of the dataset was missing
ReadWithoutSidecar ==
    /\ result.op \in {"search", "filter_search"}
    /\ result.opened
    /\ ~idx_exists[result.file_id]
    /\ result.subject_id \in Range(Keys(result.file_id))
    /\ StoredRange(result.pre, result.file_id, result.subject_id)
           = LastRun(result.file_id, result.subject_id)

OwnSearch(d, s) == search_subject(load_lookup_table(table), d, s)

\* C15: get_all_subject_data returns one entry per registered dataset; the
\* entry of a dataset whose fetch failed (the search raises, or the filter
\* could not be initialized) is an empty row batch, and the entry of every
\* other dataset is what its own search_subject returns.
C15_OneBatchPerDataset ==
    result.op = "get_all" =>
        /\ DOMAIN result.entries = FileIds
        /\ \A d \in FileIds :
              /\ result.entries[d].kind = "DataFrame"
              /\ IF result.entries[d].kind = "None"
                    \/ OwnSearch(d, result.subject_id).status # "ok"
                 THEN result.entries[d].rows = <<>>
                 ELSE /\ result.entries[d].rows = OwnSearch(d, result.subject_id).rows
                      /\ result.entries[d].columns = OwnSearch(d, result.subject_id).columns

\* C16: a build that opens the dataset imports the sidecar when it exists
\* (no build_full_index, no export_index), builds and exports the index
\* before the first line is read when it does not, and in both cases the
\* sidecar exists when the build returns.
C16_BuildEnsuresSidecar ==
    [][(result'.op = "build" /\ result'.status \notin EarlyReturns) =>
          /\ idx_exists'[result'.file_id]
          /\ result'.log = IF idx_exists[result'.file_id]
                           THEN <<"import_index", "readline">>
                           ELSE <<"build_full_index", "export_index", "readline">>]_vars

\* a second build of a dataset has imported the sidecar the first one exported
C16_Witness ==
    /\ result.op = "build"
    /\ result.status = "written"
    /\ result.log = <<"import_index", "readline">>
    /\ idx_exists[result.file_id]

\* C17: a build of a dataset that holds the header line only succeeds once
\* it opens the dataset: it records no range, and every row of the table it
\* writes has (-1, -1) in the dataset's two columns.
C17_EmptyDatasetBuild ==
    (result.op = "build" /\ result.status \notin EarlyReturns
        /\ dataset[result.file_id] = <<>>) =>
        /\ result.status = "written"
        /\ result.offsets = NoOffsets
        /\ HasColumns(table, result.file_id)
        /\ \A s \in Range(subject_ids(OnDisk(table))) :
              StoredRange(table, result.file_id, s) = <<-1, -1>>

\* a header-only dataset was built against a table of two subjects
C17_Witness ==
    /\ Written
    /\ dataset[result.file_id] = <<>>
    /\ Uncompressed(result.file_id) = HeaderLine
    /\ Len(OnDisk(table).rows) = 2
    /\ \A s \in TableIds : StoredRange(table, result.file_id, s) = <<-1, -1>>

\* the threads that are between the seek and the read of a search
Reading == {q \in Threads : queries[q].pc = "sought"}

\* C18: every search that reads the dataset has a reader handle of its own,
\* open from its seek to its read and closed when it returns: no two
\* searches in flight hold the same handle, no handle stays open without
\* its search, the handle stands where its own search put it, and the
\* search returns what it returns when it runs alone.
C18_OwnReaderHandle ==
    /\ \A q, r \in Reading : queries[q].f = queries[r].f => q = r
    /\ DOMAIN handles = {queries[q].f : q \in Reading}
    /\ \A q \in Reading : handles[queries[q].f].pos = queries[q].start_byte
    /\ result.op = "query" =>
          /\ result.status = OwnSearch(result.file_id, result.subject_id).status
          /\ result.rows = OwnSearch(result.file_id, result.subject_id).rows

\* one search has returned its subject's records while another search, for
\* another subject, stands between its seek and its read
C18_Witness ==
    /\ result.op = "query"
    /\ result.opened
    /\ result.rows # <<>>
    /\ \E q \in Reading :
          /\ queries[q].subject_id # result.subject_id
          /\ queries[q].file_id = result.file_id

\* the range the finished build of dataset d computed for subject s
Computed(d, s) ==
    IF s \in DOMAIN builds[d].offsets THEN builds[d].offsets[s] ELSE <<-1, -1>>

\* C19: when the builds of two datasets run at once and both have written,
\* the table holds the start and end columns of both datasets with the
\* ranges each build computed, under every interleaving.
C19_NeitherWriteIsLost ==
    (\A d \in FileIds : builds[d].pc = "done" /\ builds[d].status = "written") =>
        \A d \in FileIds :
            /\ HasColumns(table, d)
            /\ \A s \in Range(subject_ids(OnDisk(table))) :
                  StoredRange(table, d, s) = Computed(d, s)

\* the request names no subject id, or one that is not an integer
Malformed(raw) ==
    \/ raw.kind \in {"null", "float", "list"}
    \/ raw.kind = "str" /\ ~int(raw.text).ok

\* C20: usage errors stop at the boundary. A dataset id that is not
\* registered is refused by the filter constructors and by create_index,
\* with no file opened or written; a request of load_data whose subject id
\* is missing, is not an integer, or is not in the known subject list is
\* answered with a 4xx code and search_subject is not called.
C20_UsageErrorsStopAtBoundary ==
    /\ (result.op = "new_filter" /\ result.file_id \notin FileIds) =>
           result.status = "ValueError"
    /\ (result.op = "create_index" /\ result.file_id \notin FileIds) =>
           result.status = "Unknown file_id" /\ table = result.pre
    /\ (result.op = "api_load_data" /\ ~result.request.random
            /\ (\/ Malformed(result.request.raw)
                \/ result.subject_id \notin Range(SUBJECT_IDS))) =>
           /\ result.code \in 400..499
           /\ ~result.called

\* C21: a search writes nothing. Every step that is a search_subject call,
\* whether it returns records, returns an empty batch or raises, and whether
\* or not the sidecar exists, leaves the table file, the sidecars and the
\* dataset files as they were.
C21_SearchIsReadOnly ==
    [][result'.op \in {"search", "filter_search"} =>
          /\ table' = table
          /\ idx_exists' = idx_exists
          /\ dataset' = dataset
          /\ quoted' = quoted
          /\ sort_col_idx' = sort_col_idx]_vars

\* a search returned records from a dataset that still has no sidecar, and
\* the table is the one it read
C21_Witness ==
    /\ result.op = "search"
    /\ result.opened
    /\ result.rows # <<>>
    /\ ~idx_exists[result.file_id]
    /\ table = result.pre

\* C22: when the read of the dataset raises an I/O error during a search,
\* the caller gets that same error, not another kind and not a batch, and
\* the engine reads once: no second attempt, by the binary search or otherwise.
C22_IoErrorPropagatedUnchanged ==
    (result.op \in {"search_io", "filter_search_io"} /\ "OSError" \in Range(result.log)) =>
        /\ result.status = "OSError"
        /\ result.log = <<"read", "OSError">>

\* C23: a build of dataset D changes only D's two columns. Every row the
\* table had before the build is there after it, in the same place, with
\* the same subject_id and the same value in every column that is not one
\* of D's two; no column is dropped; and the dataset files are not written.
C23_BuildTouchesOnlyItsColumns ==
    [][result'.op = "build" =>
          /\ dataset' = dataset /\ quoted' = quoted /\ sort_col_idx' = sort_col_idx
          /\ result'.status = "written" =>
                LET before == OnDisk(table)
                    after == OnDisk(table')
                    own == {start_col(result'.file_id), end_col(result'.file_id)}
                IN /\ Len(after.rows) = Len(before.rows)
                   /\ Range(before.columns) \subseteq Range(after.columns)
                   /\ Range(after.columns) \subseteq Range(before.columns) \cup own
                   /\ \A i \in 1..Len(before.rows) :
                         \A c \in Range(before.columns) \ own :
                             after.rows[i][c] = before.rows[i][c]]_vars

\* dataset B was built into a table that held ranges of dataset A, and the
\* ranges of A are still there
C23_Witness ==
    /\ Written
    /\ result.file_id = "B"
    /\ HasColumns(result.pre, "A")
    /\ HasColumns(table, "B")
    /\ \E s \in Range(subject_ids(OnDisk(table))) :
          /\ StoredRange(table, "A", s)[1] >= O0
          /\ StoredRange(table, "A", s) = StoredRange(result.pre, "A", s)

\* the subject of some row of dataset d comes back after a row of another subject
ReEntry(d) ==
    \E i, j, k \in 1..Len(dataset[d]) :
        i < j /\ j < k /\ Keys(d)[i] = Keys(d)[k] /\ Keys(d)[j] # Keys(d)[i]

\* C24: a scan in which the sort key changes to a subject that already has
\* a recorded range prints a warning for that transition.
C24_ReEntryIsWarned ==
    (result.op = "build" /\ result.status = "written" /\ ReEntry(result.file_id)) =>
        \E i \in 1..Len(result.printed) : result.printed[i][1] = "Warning"

\* the bytes of the rows of subject s in dataset d that are not in its last run
EarlierRuns(d, s) ==
    UNION {RowStart(d, i)..(RowStart(d, i + 1) - 1) :
              i \in {k \in 1..Len(dataset[d]) :
                        Keys(d)[k] = s /\ RowStart(d, k) < LastRun(d, s)[1]}}

\* C25: when a subject occurs in runs that are not adjacent, a build that
\* opens the dataset and can parse its keys still writes the table; the
\* range recorded for every subject of the file is its last run, so the
\* subjects with one run have that run, and no byte of an earlier run of a
\* subject lies in any recorded range.
C25_LastRunWins ==
    (result.op = "build" /\ result.status \notin EarlyReturns
        /\ ~(quoted /\ sort_col_idx = 1) /\ ReEntry(result.file_id)) =>
        LET d == result.file_id
            off == result.offsets
        IN /\ result.status = "written"
           /\ DOMAIN off = Range(Keys(d))
           /\ \A s \in DOMAIN off : off[s] = LastRun(d, s)
           /\ \A s \in DOMAIN off : \A p \in EarlierRuns(d, s) :
                 \A t \in DOMAIN off : ~(off[t][1] <= p /\ p < off[t][2])

\* a subject left and came back: its first row is in no recorded range and
\* its range starts after the range of the subject between its runs
C25_Witness ==
    /\ Written
    /\ ReEntry(result.file_id)
    /\ \E s, t \in DOMAIN result.offsets :
          /\ s # t
          /\ EarlierRuns(result.file_id, s) # {}
          /\ result.offsets[t][2] = result.offsets[s][1]
          /\ result.offsets[t][1] > O0

\* the ways a build ends without writing the table
Aborts ==
    EarlyReturns \cup {"no_sort_column", "ValueError", "OSError"}

RowKey(i) ==
    int(result.rows[i][index_of(result.columns, sort_col) + 1])

\* C27 as stated: whatever the table holds, every row of a non-empty batch
\* returned by File_Filter.search_subject(s) has sort-column value s.
C27_BatchHoldsOnlyItsSubject ==
    (result.op = "search" /\ result.status = "ok" /\ result.rows # <<>>) =>
        \A i \in 1..Len(result.rows) :
            RowKey(i).ok /\ RowKey(i).val = result.subject_id

\* C27 amended: whatever the table holds, the first row of a non-empty
\* batch returned by File_Filter.search_subject(s) has sort-column value s;
\* the rows after it are not compared.
C27_FirstRowIsTheSubject ==
    (result.op = "search" /\ result.status = "ok" /\ result.rows # <<>>) =>
        RowKey(1).ok /\ RowKey(1).val = result.subject_id

\* a stored end beyond the subject's records: the batch starts with a row
\* of the subject and goes on with a row of another subject
C27_Witness ==
    /\ result.op = "search"
    /\ result.status = "ok"
    /\ Len(result.rows) >= 2
    /\ RowKey(1).val = result.subject_id
    /\ \E i \in 2..Len(result.rows) : RowKey(i).val # result.subject_id

\* C28: after generate_byte_index has written the table at a lookup_csv_path
\* that differs from the Filter's own lookup path, the Filter's in-memory
\* lookup table is the table just written
C28_LookupIsTableWritten ==
    (result.op = "build_at" /\ result.status = "written")
        => result.lookup = load_lookup_table(target_csv)

\* the row numbers (1-based) of the data rows of subject s in dataset d
RowsWith(d, s) == {i \in 1..Len(dataset[d]) : Keys(d)[i] = s}

\* the last search went by row number through the binary search
ByRowNumber == result.op = "filter_search" /\ result.log = <<"binary_search">>

\* C29: the binary search of Filter.search_subject on a file sorted on the
\* sort column, whose registered row count is its number of data rows, ends
\* and returns the rows from the first to the last row of the subject when
\* the subject is in the file, and an empty batch with the header columns
\* when it is not.
C29_BinarySearchLoadsTheRun ==
    (ByRowNumber /\ Sorted(result.file_id)) =>
        LET d == result.file_id
            mine == RowsWith(d, result.subject_id)
            first == CHOOSE i \in mine : \A k \in mine : i <= k
            last == CHOOSE i \in mine : \A k \in mine : k <= i
        IN /\ result.status = "ok"
           /\ result.columns = HeaderNames
           /\ result.rows = IF mine = {} THEN <<>>
                            ELSE [i \in 1..(last - first + 1) |->
                                     RecordOf(dataset[d][first + i - 1])]

\* a search by row number that found a run of three rows at the end of a
\* file that starts with the rows of another subject
C29_Witness ==
    /\ ByRowNumber /\ Sorted(result.file_id)
    /\ Len(result.rows) = 3
    /\ Len(dataset[result.file_id]) = SearchRows
    /\ RowsWith(result.file_id, result.subject_id) = {3, 4, 5}

\* the data line i of dataset d has a key field
Keyed(d, i) == "sid" \in DOMAIN dataset[d][i]

\* the offsets at which the keyed lines among the first k data lines start
KeyedStarts(d, k) == {RowStart(d, i) : i \in {j \in 1..k : Keyed(d, j)}}

\* the offsets of the line boundaries of the data region of dataset d
LineBoundaries(d) == {RowStart(d, i) : i \in 1..(Len(dataset[d]) + 1)}

\* C30: while the scan runs, current_offset at the start of a line is O0
\* plus the length of all the data lines read before it, the lines with too
\* few fields included; those lines start and end no run, so the starts and
\* ends recorded so far are starts of lines that have a key, and every start
\* and end a build records is the offset of a line boundary.
C30_OffsetsAreLineBoundaries ==
    /\ (result.op = "scan" /\ result.scan[1].error = "") =>
          LET d == result.file_id
              st == result.scan[1]
              seen == KeyedStarts(d, result.lines)
          IN /\ st.current_offset = RowStart(d, result.lines + 1)
             /\ st.current_offset = st.pos
             /\ (st.current_subject = <<>>) <=> (seen = {})
             /\ seen # {} => st.subject_start_offset \in seen
             /\ \A s \in DOMAIN st.offsets :
                    st.offsets[s][1] \in seen /\ st.offsets[s][2] \in seen
    /\ (result.op = "build" /\ result.status = "written") =>
          \A s \in DOMAIN result.offsets :
              /\ result.offsets[s][1] \in LineBoundaries(result.file_id)
              /\ result.offsets[s][2] \in LineBoundaries(result.file_id)

\* the scan has read a keyed line, a line with too few fields and the first
\* line of another subject
C30_Witness ==
    /\ result.op = "scan" /\ result.scan[1].error = ""
    /\ result.lines = 3
    /\ Keyed(result.file_id, 1) /\ ~Keyed(result.file_id, 2) /\ Keyed(result.file_id, 3)
    /\ DOMAIN result.scan[1].offsets # {}
    /\ result.scan[1].current_offset > result.scan[1].subject_start_offset

====
